---- MODULE Spec2Model ----
(***************************************************************************)
(* The rolling per-host, per-service-instance stats grid of notehub-watch  *)
(* (stats store of src/unnamed/part_002, lines 1-990): the in-memory map   *)
(* "stats", the map "statsServiceVersions", the day files on disk, and the *)
(* store's operations uStatsVerify, uStatsAdd (with uValidateStats),       *)
(* uLoadStats, uSaveStats and uStatsExtract.                               *)
(* Around the store: the maintenance cycle statsUpdateHost with the        *)
(* watcher's version cache and the loop of statsMaintainer, and the delta  *)
(* converter ConvertStatsFromAbsoluteToRelative of src/unnamed/part_005.   *)
(*                                                                         *)
(* Go values are modelled as follows.                                      *)
(*   StatsStat         record [SnapshotTaken, OSMemTotal]; the other       *)
(*                     counters ride along with the record and are never   *)
(*                     read by the store.                                  *)
(*   []StatsStat       a sequence, index 1 here is index 0 in Go.          *)
(*   map[string][]..   a function whose DOMAIN is the set of keys present. *)
(*   nil map           the flag StatsNil (stored row) or nil (incoming).   *)
(*   panic             the variable "panicked": an unrecovered run-time    *)
(*                     panic in the maintainer goroutine ends the process. *)
(*   returned value    the variable "held": the HostStats a caller of      *)
(*                     statsExtract got back and still reads; held.shared  *)
(*                     says that its Stats field is the stored map itself. *)
(***************************************************************************)
EXTENDS Integers, Sequences, FiniteSets, TLC

VARIABLES stats, statsServiceVersions, files, today, panicked, last, ops, held

\* the watcher's cache of the version each host reported last, and the
\* maintainer goroutine: the day it sampled, its position in the loop, and
\* (history) the UTC day of each host's latest statsUpdateHost call
VARIABLES lastServiceVersions, lastUpdatedDay, pc, updatedDay

maintVars == <<lastServiceVersions, lastUpdatedDay, pc, updatedDay>>

\* the snapshots handed to ConvertStatsFromAbsoluteToRelative with their
\* bucket length, and what it returned
VARIABLES absolute, relative

convVars == <<absolute, relative>>

\* the answers of the service instances of a host to one watcherGetStats,
\* and what it returned
VARIABLES answers, scraped

scrapeVars == <<answers, scraped>>

\* the last call of watcherGetServiceInstances on its own
VARIABLES pinged

pingVars == <<pinged>>

\* the mutex statsLock (its owner), the position of every goroutine that
\* calls statsUpdateHost, the clock in seconds, the time statsInit took, and
\* the goroutines whose cycle called datadogUploadStats
VARIABLES statsLock, cycle, now, statsInitCompleted, uploaded

lockVars == <<statsLock, cycle, now, statsInitCompleted, uploaded>>

storeVars == <<stats, statsServiceVersions, files, today, panicked, last, ops, held>>

\* the variables outside the store, the maintainer and the converter
\* the canary: the device contexts, the last event of every device (the map
\* "last" of the source) and the deliveries handled so far with their alerts
VARIABLES device, canaryLast, delivered

canaryVars == <<device, canaryLast, delivered>>

\* the sweep of the canary: the clock in seconds, the position of the sweep
\* task in canarySweepDevices with its locals, and the devices it has
\* evaluated so far with the message sent for each
VARIABLES clock, sweep, swept

sweepVars == <<clock, sweep, swept>>

\* the aggregation: the series handed to statsAggregate and what it returned
VARIABLES allStats, aggregated

\* the position of the maintainer in uLoadStats
VARIABLES loading

\* the threads that take the other mutexes: the position of each in its
\* function, the mutexes it holds and the network call it performs
VARIABLES net

\* the caller of the last watcherGetServiceInstances and the version of
\* every host the maintainer has last been given
VARIABLES watch

\* the variables of the sections after the sweep
lateVars == <<allStats, aggregated, loading, net, watch>>

\* the variables of the later sections
moreVars == <<sweepVars, lateVars>>

auxVars == <<scrapeVars, pingVars, lockVars, canaryVars, moreVars>>

vars == <<storeVars, maintVars, convVars, auxVars>>

(***************************************************************************)
(* Bounds of the model.                                                    *)
(***************************************************************************)
\* grid times are secs1Day * 1 .. secs1Day * MaxT
MaxT == 3
\* longest incoming series handed to uStatsAdd by a poll
MaxIn == 2
\* number of store operations in one behaviour
MaxOps == 3
\* number of operations in one behaviour of the single-instance polls
MaxPolls == 4
\* statsUpdateHost calls and day rollovers of a run of the maintainer
MaxCycles == 3
\* longest sequence of snapshots handed to the converter
MaxSnaps == 3
\* largest sum of the two counter levels of a snapshot
MaxCount == 2
\* most service instances of a host
MaxInstances == 3
\* most calls of watcherGetServiceInstances
MaxPings == 3
\* the clock runs for this many ticks of TickSecs seconds
MaxTicks == 3
\* most events delivered to the canary, and the largest count of an event
MaxDeliveries == 4
MaxSeq == 4

\* the clock when the first event is delivered, in seconds
StreamStart == 100000

\* the sweep task wakes up this many times
MaxSweeps == 17

\* the webhook delivers this many events while the sweep task runs
MaxWebhooks == 2

\* longest series of an instance handed to statsAggregate
MaxSeries == 2

\* every thread calls its function this many times
MaxCalls == 2

(***************************************************************************)
(* Program constants and the small input sets.                             *)
(***************************************************************************)
secs1Day == 60 * 60 * 24
Hosts == {"prod"}
hostaddr == "https://prod"
SIIDs == {"n1:svc", "n2:svc"}
Versions == {"v1", "v2"}
\* bucket widths a service reports: 30 s gives BucketMins = 0
BucketSecsSet == {30, secs1Day}
\* the rolling window the grid is documented to hold
RollingWindowSecs == 48 * 60 * 60

GridTime(t) == secs1Day * t

(***************************************************************************)
(* Go helpers.                                                             *)
(***************************************************************************)
\* Go integer division truncates toward zero (b > 0)
TruncDiv(a, b) == IF a >= 0 THEN a \div b ELSE -((-a) \div b)

\* the zero StatsStat with only SnapshotTaken set
Placeholder(w) == [SnapshotTaken |-> w, OSMemTotal |-> 0]

\* z := make([]StatsStat, n); z[i].SnapshotTaken = start - bucketSecs*i
MakeRun(start, n, bucketSecs) ==
    [i \in 1..n |-> Placeholder(start - bucketSecs * (i - 1))]

MapPut(m, k, v) == [x \in (DOMAIN m) \cup {k} |-> IF x = k THEN v ELSE m[x]]

EmptyMap == [x \in {} |-> <<>>]

\* the zero HostStats value
ZeroHostStats ==
    [Name |-> "", Addr |-> "", Time |-> 0, BucketMins |-> 0,
     StatsNil |-> TRUE, Stats |-> EmptyMap]

\* hs := stats[hostname]  (a missing key reads as the zero value)
StatsRow(st, hostname) ==
    IF hostname \in DOMAIN st THEN st[hostname] ELSE ZeroHostStats

\* orders in which a Go range loop may visit the keys of a map
Orders ==
    {o \in [1..Cardinality(SIIDs) -> SIIDs] :
        \A i, j \in 1..Cardinality(SIIDs) : i /= j => o[i] /= o[j]}

\* the keys of m in the order ord
KeysIn(ord, m) == SelectSeq(ord, LAMBDA k : k \in DOMAIN m)

MaxOf(S) == CHOOSE x \in S : \A y \in S : y <= x

(***************************************************************************)
(* uStatsVerify: reset the host row when the service version differs.      *)
(***************************************************************************)
\* a slip that resets the host on every call, whatever the version
uStatsVerify_Always(st, sv, hostname, serviceVersion, bucketSecs) ==
    [stats |-> MapPut(st, hostname,
                  [Name |-> hostname, Addr |-> hostaddr, Time |-> 0,
                   BucketMins |-> bucketSecs \div 60,
                   StatsNil |-> TRUE, Stats |-> EmptyMap]),
     versions |-> [sv EXCEPT ![hostname] = serviceVersion]]

uStatsVerify(st, sv, hostname, serviceVersion, bucketSecs) ==
    IF serviceVersion /= sv[hostname]
    THEN [stats |-> MapPut(st, hostname,
                      [Name |-> hostname, Addr |-> hostaddr, Time |-> 0,
                       BucketMins |-> bucketSecs \div 60,
                       StatsNil |-> TRUE, Stats |-> EmptyMap]),
          versions |-> [sv EXCEPT ![hostname] = serviceVersion]]
    ELSE [stats |-> st, versions |-> sv]

(***************************************************************************)
(* uValidateStats: check each series of the map s against the grid         *)
(* normalizedTime - i*bucketSecs and rebuild the ones that are off.        *)
(***************************************************************************)
\* the loop "for sn, stat := range sis" of the fixup, from entry sn on
RECURSIVE FixupPlace(_, _, _, _, _, _)
FixupPlace(newStats, sis, sn, normalizedTime, normalizedLength, bucketSecs) ==
    IF sn > Len(sis) THEN newStats
    ELSE LET stat == sis[sn]
             i == TruncDiv(normalizedTime - stat.SnapshotTaken, bucketSecs)
             placed ==
                 IF i < 0 \/ i >= normalizedLength THEN newStats
                 ELSE IF newStats[i + 1].SnapshotTaken /= stat.SnapshotTaken
                      THEN newStats
                      ELSE [newStats EXCEPT ![i + 1] = stat]
         IN  FixupPlace(placed, sis, sn + 1, normalizedTime,
                        normalizedLength, bucketSecs)

\* the pre-check of one series: wrong length or an entry off the grid
ValidateBad(sis, normalizedTime, normalizedLength, bucketSecs) ==
    \/ normalizedLength /= Len(sis)
    \/ \E i \in 1..normalizedLength :
          sis[i].SnapshotTaken /= normalizedTime - (i - 1) * bucketSecs

uValidateStats(s, normalizedTime0, bucketSecs) ==
    LET normalizedLength == MaxOf({0} \cup {Len(s[k]) : k \in DOMAIN s})
        maxTime ==
            MaxOf({0} \cup {s[k][1].SnapshotTaken :
                               k \in {x \in DOMAIN s : Len(s[x]) > 0}})
        normalizedTime ==
            IF normalizedTime0 = 0 THEN maxTime ELSE normalizedTime0
        \* sis[i] with i >= len(sis): index out of range
        panic == \E k \in DOMAIN s : Len(s[k]) < normalizedLength
        blank ==
            MakeRun(normalizedTime, normalizedLength, bucketSecs)
        fixed(k) ==
            IF ValidateBad(s[k], normalizedTime, normalizedLength, bucketSecs)
            THEN FixupPlace(blank, s[k], 1, normalizedTime,
                            normalizedLength, bucketSecs)
            ELSE s[k]
    IN  IF panic
        THEN [panic |-> TRUE, s |-> s]
        ELSE [panic |-> FALSE, s |-> [k \in DOMAIN s |-> fixed(k)]]

(***************************************************************************)
(* uStatsAdd, step by step.                                                *)
(***************************************************************************)
\* the loop "for siid, sis := range s" that creates the missing series and
\* takes the window from the first series visited; keys is the visit order
RECURSIVE AddScanIncoming(_, _, _, _, _)
AddScanIncoming(acc, s, keys, n, bucketSecs) ==
    IF n > Len(keys) \/ acc.exit /= "" THEN acc
    ELSE LET siid == keys[n]
             sis == s[siid]
             hsStats1 == IF siid \in DOMAIN acc.hsStats THEN acc.hsStats
                         ELSE MapPut(acc.hsStats, siid, <<>>)
             first == acc.buckets = 0
             buckets1 == IF first THEN Len(sis) ELSE acc.buckets
             most1 == IF first /\ Len(sis) > 0 THEN sis[1].SnapshotTaken
                      ELSE acc.mostRecentTime
             next ==
                 IF first /\ Len(sis) = 0
                 \* sis[0] of an empty series: index out of range
                 THEN [acc EXCEPT !.hsStats = hsStats1, !.exit = "panic"]
                 ELSE IF Len(sis) /= buckets1 \/ buckets1 = 0
                 THEN [acc EXCEPT !.hsStats = hsStats1, !.buckets = buckets1,
                                  !.mostRecentTime = most1,
                                  !.exit = "nonuniform"]
                 ELSE [acc EXCEPT !.hsStats = hsStats1, !.buckets = buckets1,
                                  !.mostRecentTime = most1,
                                  !.timeDiag = acc.timeDiag
                                      \/ most1 /= sis[1].SnapshotTaken
                                      \/ most1 = 0]
         IN  AddScanIncoming(next, s, keys, n + 1, bucketSecs)

\* extend all arrays at the front when the window is more recent
AddFrontExtend(hsStats, hsTime, mostRecentTime, bucketSecs) ==
    IF mostRecentTime > hsTime
    THEN LET arrayEntries == (mostRecentTime - hsTime) \div bucketSecs
             z == MakeRun(mostRecentTime, arrayEntries, bucketSecs)
         IN  [Stats |-> [k \in DOMAIN hsStats |-> z \o hsStats[k]],
              Time |-> mostRecentTime]
    ELSE [Stats |-> hsStats, Time |-> hsTime]

\* extend each array at the end down to the window's least recent time
AddTailExtend(hsStats, hsTime, leastRecentTime, bucketSecs) ==
    [k \in DOMAIN hsStats |->
        LET hsLeastRecentTime == hsTime - Len(hsStats[k]) * bucketSecs
        IN  IF hsLeastRecentTime > leastRecentTime
            THEN hsStats[k] \o
                 MakeRun(hsLeastRecentTime,
                         (hsLeastRecentTime - leastRecentTime) \div bucketSecs,
                         bucketSecs)
            ELSE hsStats[k]]

\* the sanity loop over the stored series; keys is the visit order and the
\* result is "" (passed), "sanity" (returned) or "panic" (sis[0] of an
\* empty series)
RECURSIVE AddSanity(_, _, _, _, _, _, _, _)
AddSanity(hsStats, hsTime, mostRecentTime, leastRecentTime, bucketSecs, keys, n, hsBuckets) ==
    IF n > Len(keys) THEN ""
    ELSE LET sis == hsStats[keys[n]]
             hsBuckets1 == IF hsBuckets = 0 THEN Len(sis) ELSE hsBuckets
         IN  IF Len(sis) = 0 THEN "panic"
             ELSE IF hsTime /= sis[1].SnapshotTaken THEN "sanity"
             ELSE IF hsTime < mostRecentTime THEN "sanity"
             ELSE IF hsBuckets = 0
                     /\ hsTime - bucketSecs * hsBuckets1 > leastRecentTime
                  THEN "sanity"
             ELSE IF Len(sis) /= hsBuckets1 THEN "sanity"
             ELSE AddSanity(hsStats, hsTime, mostRecentTime, leastRecentTime,
                            bucketSecs, keys, n + 1, hsBuckets1)

\* the loop "for sn, snew := range sis" that stores one incoming series
RECURSIVE AddAssignSeries(_, _, _, _, _)
AddAssignSeries(acc, sis, sn, mostRecentTime, bucketSecs) ==
    IF sn > Len(sis) \/ acc.panic THEN acc
    ELSE LET snew == sis[sn]
             i == TruncDiv(mostRecentTime - snew.SnapshotTaken, bucketSecs)
             next ==
                 IF i < 0 \/ i > Len(acc.cur)
                 THEN [acc EXCEPT !.bounds = TRUE]
                 ELSE IF i = Len(acc.cur)
                 \* hs.Stats[siid][i] with i == len: index out of range
                 THEN [acc EXCEPT !.panic = TRUE]
                 ELSE LET place == acc.place
                                   \/ acc.cur[i + 1].SnapshotTaken
                                          /= snew.SnapshotTaken
                      IN  IF snew.OSMemTotal /= 0
                          THEN [acc EXCEPT !.cur = [@ EXCEPT ![i + 1] = snew],
                                           !.newStats = Append(@, snew),
                                           !.place = place]
                          ELSE [acc EXCEPT !.place = place]
         IN  AddAssignSeries(next, sis, sn + 1, mostRecentTime, bucketSecs)

\* what uStatsAdd hands back, and the map "stats" it leaves behind
AddResult(exit, st, added, addedStats, diag) ==
    [exit |-> exit, stats |-> st, added |-> added,
     addedStats |-> addedStats, diag |-> diag]

NoDiag == [time |-> FALSE, bounds |-> FALSE, place |-> FALSE]

\* a slip that writes the fetched row back before the early return
AddInvalid_Stored(st, hostname, hs) ==
    AddResult("invalid",
              MapPut(st, hostname, [hs EXCEPT !.StatsNil = FALSE]),
              0, EmptyMap, NoDiag)

\* the early return for a host without a bucket width: nothing is stored
AddInvalid(st, hostname, hs) ==
    AddResult("invalid", st, 0, EmptyMap, NoDiag)

\* hs.Stats[siid] = ... before the checkpoint: hs.Stats is the stored map
\* itself unless it was nil, so the stored row sees the new keys
AddStored(st, hostname, hs, m) ==
    IF hostname \in DOMAIN st /\ ~hs.StatsNil
    THEN [st EXCEPT ![hostname].Stats = m]
    ELSE st

\* stats[hostname] = hs
AddCheckpoint(st, hostname, hs, m, tm) ==
    MapPut(st, hostname,
           [hs EXCEPT !.Stats = m, !.StatsNil = FALSE, !.Time = tm])

\* one call of uValidateStats (a map without series has nothing to check)
AddValidate(m, normalizedTime, bucketSecs) ==
    IF DOMAIN m /= {}
    THEN uValidateStats(m, normalizedTime, bucketSecs)
    ELSE [panic |-> FALSE, s |-> m]

\* added++ over all the series
RECURSIVE AddedCount(_, _)
AddedCount(asg, K) ==
    IF K = {} THEN 0
    ELSE LET k == CHOOSE x \in K : TRUE
         IN  Len(asg[k].newStats) + AddedCount(asg, K \ {k})

\* the end of uStatsAdd: the incoming series are assigned (asg), the row
\* is stored and the count and the added buckets are returned
AddAssigned(st, hostname, hs, s, scan, hsTime, tail, asg) ==
    LET diag == [time |-> scan.timeDiag,
                 bounds |-> \E k \in DOMAIN s : asg[k].bounds,
                 place |-> \E k \in DOMAIN s : asg[k].place]
    IN  IF \E k \in DOMAIN s : asg[k].panic
        THEN AddResult("panic", AddCheckpoint(st, hostname, hs, tail, hsTime),
                       0, EmptyMap, diag)
        ELSE AddResult("done",
                       AddCheckpoint(st, hostname, hs,
                           [k \in DOMAIN tail |->
                               IF k \in DOMAIN s THEN asg[k].cur ELSE tail[k]],
                           hsTime),
                       AddedCount(asg, DOMAIN s),
                       [k \in {x \in DOMAIN s : Len(asg[x].newStats) > 0} |->
                           asg[k].newStats],
                       diag)

\* uStatsAdd after the arrays were extended: the checkpoint
\* "stats[hostname] = hs", the sanity loop (its outcome is sanity) and the
\* assignment of the incoming series
AddExtended(st, hostname, hs, s, scan, hsTime, tail, sanity, bucketSecs) ==
    IF sanity /= ""
    THEN AddResult(sanity, AddCheckpoint(st, hostname, hs, tail, hsTime),
                   0, EmptyMap, [NoDiag EXCEPT !.time = scan.timeDiag])
    ELSE AddAssigned(st, hostname, hs, s, scan, hsTime, tail,
             [k \in DOMAIN s |->
                 AddAssignSeries(
                     [cur |-> tail[k], newStats |-> <<>>, panic |-> FALSE,
                      bounds |-> FALSE, place |-> FALSE],
                     s[k], 1, scan.mostRecentTime, bucketSecs)])

\* uStatsAdd after the front extension (front): the tail extension down to
\* leastRecentTime, then the rest
AddFronted(st, hostname, hs, s, scan, front, tail, ord2, bucketSecs) ==
    AddExtended(st, hostname, hs, s, scan, front.Time, tail,
                AddSanity(tail, front.Time, scan.mostRecentTime,
                          scan.mostRecentTime - scan.buckets * bucketSecs,
                          bucketSecs, KeysIn(ord2, tail), 1, 0),
                bucketSecs)

\* uStatsAdd after the scan of the incoming map (scan): the early return
\* for series of differing lengths, else hs.Time is initialized and the
\* arrays are extended
AddScanned(st, hostname, hs, s, scan, front, ord2, bucketSecs) ==
    IF scan.exit /= ""
    THEN AddResult(scan.exit, AddStored(st, hostname, hs, scan.hsStats),
                   0, EmptyMap, [NoDiag EXCEPT !.time = scan.timeDiag])
    ELSE AddFronted(st, hostname, hs, s, scan, front,
                    AddTailExtend(front.Stats, front.Time,
                        scan.mostRecentTime - scan.buckets * bucketSecs,
                        bucketSecs),
                    ord2, bucketSecs)

\* uStatsAdd after the two calls of uValidateStats (vNew for the incoming
\* map, vOld for the stored one)
AddValidated(st, hostname, hs, s, scan, ord2, bucketSecs) ==
    AddScanned(st, hostname, hs, s, scan,
               AddFrontExtend(scan.hsStats,
                              IF hs.Time = 0 THEN scan.mostRecentTime
                              ELSE hs.Time,
                              scan.mostRecentTime, bucketSecs),
               ord2, bucketSecs)

\* uStatsAdd for a host with a bucket width: validate both maps, then scan
\* the incoming one
AddChecked(st, hostname, hs, vNew, vOld, ord1, ord2, bucketSecs) ==
    IF vNew.panic \/ vOld.panic
    THEN AddResult("panic", st, 0, EmptyMap, NoDiag)
    ELSE AddValidated(st, hostname, hs, vNew.s,
             AddScanIncoming(
                 [hsStats |-> vOld.s, buckets |-> 0, mostRecentTime |-> 0,
                  timeDiag |-> FALSE, exit |-> ""],
                 vNew.s, KeysIn(ord1, vNew.s), 1, bucketSecs),
             ord2, bucketSecs)

\* uStatsAdd with the row hs := stats[hostname] fetched
AddRow(st, hostname, hs, in, ord1, ord2) ==
    IF in.nil THEN AddResult("nil", st, 0, EmptyMap, NoDiag)
    ELSE IF hs.BucketMins = 0
    THEN AddInvalid(st, hostname, hs)
    ELSE AddChecked(st, hostname, hs,
                    AddValidate(in.m, 0, hs.BucketMins * 60),
                    AddValidate(hs.Stats, hs.Time, hs.BucketMins * 60),
                    ord1, ord2, hs.BucketMins * 60)

\* uStatsAdd(hostname, hostaddr, s): in.nil says that s is a nil map, ord1
\* and ord2 are the visit orders of the two range loops whose outcome
\* depends on the order
uStatsAdd(st, hostname, in, ord1, ord2) ==
    AddRow(st, hostname, StatsRow(st, hostname), in, ord1, ord2)

(***************************************************************************)
(* Extraction and the day files.                                           *)
(***************************************************************************)
uStatsLoaded(st, sv, hostname) ==
    sv[hostname] /= "" /\ hostname \in DOMAIN st

\* the scan of one series, most recent first: it stops at the first entry
\* older than beginTime and keeps the entries before beginTime + duration
RECURSIVE ExtractScan(_, _, _, _)
ExtractScan(sis, n, beginTime, duration) ==
    IF n > Len(sis) THEN <<>>
    ELSE IF sis[n].SnapshotTaken < beginTime THEN <<>>
    ELSE IF sis[n].SnapshotTaken < beginTime + duration
         THEN <<sis[n]>> \o ExtractScan(sis, n + 1, beginTime, duration)
         ELSE ExtractScan(sis, n + 1, beginTime, duration)

uStatsExtract(st, hostname, beginTime, duration) ==
    LET hs == StatsRow(st, hostname)
        exists == hostname \in DOMAIN st
        kept == [k \in DOMAIN hs.Stats |->
                    ExtractScan(hs.Stats[k], 1, beginTime, duration)]
        keys == {k \in DOMAIN hs.Stats : Len(kept[k]) /= 0}
        whens == UNION {{kept[k][i].SnapshotTaken : i \in DOMAIN kept[k]} :
                           k \in keys}
    IN  IF duration = 0 THEN [hs |-> hs, exists |-> exists]
        ELSE [hs |-> [Name |-> hs.Name, Addr |-> hs.Addr,
                      Time |-> MaxOf({0} \cup whens),
                      BucketMins |-> hs.BucketMins, StatsNil |-> FALSE,
                      Stats |-> [k \in keys |-> kept[k]]],
              exists |-> exists]

\* statsExtract: uStatsExtract for a loaded host, the zero value otherwise
statsExtract(st, sv, hostname, beginTime, duration) ==
    IF ~uStatsLoaded(st, sv, hostname)
    THEN [hs |-> ZeroHostStats, exists |-> FALSE]
    ELSE uStatsExtract(st, hostname, beginTime, duration)

\* json.Marshal followed by json.Unmarshal of a HostStats: every field is
\* "omitempty", so an empty stats map comes back as a nil map
JsonRoundTrip(hs) ==
    IF DOMAIN hs.Stats = {}
    THEN [hs EXCEPT !.StatsNil = TRUE, !.Stats = EmptyMap]
    ELSE [hs EXCEPT !.StatsNil = FALSE]

\* statsFilename: host-serviceVersion-yyyymmdd
statsFilename(host, serviceVersion, filetime) ==
    <<host, serviceVersion, filetime \div secs1Day>>

yesterdayTime(todayTime) == todayTime - secs1Day

\* writeFileLocally: the slice [beginTime, beginTime + duration) of the
\* host, marshalled; writeOk is the outcome of ioutil.WriteFile
writeFileLocally(fs, st, sv, hostname, serviceVersion, beginTime, duration, writeOk) ==
    LET hs == statsExtract(st, sv, hostname, beginTime, duration).hs
        name == statsFilename(hostname, serviceVersion, beginTime)
    IN  IF writeOk
        THEN [x \in (DOMAIN fs) \cup {name} |->
                 IF x = name THEN JsonRoundTrip(hs) ELSE fs[x]]
        ELSE fs

\* uSaveStats: write today's slice (the upload that follows changes no
\* state of this process)
uSaveStats(fs, st, sv, hostname, serviceVersion, todayTime, writeOk) ==
    writeFileLocally(fs, st, sv, hostname, serviceVersion, todayTime,
                     secs1Day, writeOk)

\* readFileLocally: err /= nil when the file is missing
readFileLocally(fs, hostname, serviceVersion, beginTime) ==
    LET name == statsFilename(hostname, serviceVersion, beginTime)
    IN  IF name \in DOMAIN fs
        THEN [err |-> FALSE, hs |-> fs[name]]
        ELSE [err |-> TRUE, hs |-> ZeroHostStats]

\* one file of uLoadStats: add it when it could be read
LoadFile(st, hostname, file, ord1, ord2) ==
    IF file.err
    THEN AddResult("nofile", st, 0, EmptyMap, NoDiag)
    ELSE uStatsAdd(st, hostname,
                   [nil |-> file.hs.StatsNil, m |-> file.hs.Stats],
                   ord1, ord2)

\* uLoadStats after both files: a1 and a2 are the outcomes of the two adds
LoadResult(v, a1, a2) ==
    [stats |-> a2.stats, versions |-> v.versions,
     today |-> a1, yesterday |-> a2,
     panic |-> a1.exit = "panic" \/ a2.exit = "panic"]

\* uLoadStats after today's file (a1): yesterday's file
LoadYesterday(v, fs, hostname, serviceVersion, todayTime, a1, ords) ==
    LoadResult(v, a1,
        IF a1.exit = "panic" THEN a1
        ELSE LoadFile(a1.stats, hostname,
                 readFileLocally(fs, hostname, serviceVersion,
                                 yesterdayTime(todayTime)),
                 ords[3], ords[4]))

\* uLoadStats after the host was cleared (v): today's file
LoadToday(v, fs, hostname, serviceVersion, todayTime, ords) ==
    LoadYesterday(v, fs, hostname, serviceVersion, todayTime,
        LoadFile(v.stats, hostname,
                 readFileLocally(fs, hostname, serviceVersion, todayTime),
                 ords[1], ords[2]),
        ords)

\* uLoadStats: clear the host, then add today's and yesterday's file
uLoadStats(st, sv, fs, hostname, serviceVersion, bucketSecs, todayTime, ords) ==
    LoadToday(uStatsVerify(st, [sv EXCEPT ![hostname] = ""], hostname,
                           serviceVersion, bucketSecs),
              fs, hostname, serviceVersion, todayTime, ords)

(***************************************************************************)
(* watcherGetStats and statsUpdateHost, one maintenance cycle of a host.   *)
(* The cycle is modelled as the sequence of its calls on the store; the    *)
(* mutex statsLock, which the cycle holds while uSaveStats asks for it     *)
(* again through statsExtract, is left out here, so a trace of the cycle   *)
(* is an execution of these lines under the locking of the earlier         *)
(* revision (src/unnamed/part_003, statsUpdateLock).                       *)
(***************************************************************************)
\* lastServiceVersions[hostname]: "" when the key is missing
LastVersion(lsv, hostname) ==
    IF hostname \in DOMAIN lsv THEN lsv[hostname] ELSE ""

\* a watcherGetServiceInstances that takes the first version of a host for
\* a change
watcherGetServiceInstances_FirstIsChange(lsv, hostname, serviceVersion, pingErr) ==
    LET differs == ~pingErr /\ LastVersion(lsv, hostname) /= serviceVersion
        refreshCache == differs \/ hostname \notin DOMAIN lsv
    IN  [serviceVersionChanged |-> differs,
         err |-> pingErr /\ ~refreshCache,
         lsv |-> IF refreshCache THEN MapPut(lsv, hostname, serviceVersion)
                 ELSE lsv]

\* watcherGetServiceInstances: serviceVersion is what the ping reported
\* ("" when the ping failed, pingErr).  The entry of lastServiceHandlers is
\* written together with the one of lastServiceVersions, so it exists when
\* hostname is a key of lsv; a change of the handlers alone refreshes the
\* cache with the same version and clears its own error.
watcherGetServiceInstances(lsv, hostname, serviceVersion, pingErr) ==
    LET differs == ~pingErr /\ LastVersion(lsv, hostname) /= serviceVersion
        refreshCache == differs \/ hostname \notin DOMAIN lsv
    IN  [serviceVersionChanged |-> differs /\ LastVersion(lsv, hostname) /= "",
         err |-> pingErr /\ ~refreshCache,
         lsv |-> IF refreshCache THEN MapPut(lsv, hostname, serviceVersion)
                 ELSE lsv]

\* watcherGetStats: p is the answer of the host, p.nodeErr the failure of
\* one getServiceInstanceInfo after the service instances were listed
watcherGetStats(lsv, hostname, p) ==
    LET g == watcherGetServiceInstances(lsv, hostname, p.ver, p.pingErr)
    IN  [serviceVersionChanged |-> g.serviceVersionChanged,
         err |-> g.err \/ p.nodeErr, lsv |-> g.lsv]

\* what statsUpdateHost leaves behind: saved is the name of the file
\* written before the reload (line 654), <<>> when none was written
UpdateResult(exit, st, sv, fs, lsv, changed, saved, a) ==
    [exit |-> exit, stats |-> st, versions |-> sv, files |-> fs, lsv |-> lsv,
     changed |-> changed, saved |-> saved, add |-> a]

NoAdd == AddResult("", [h \in {} |-> ZeroHostStats], 0, EmptyMap, NoDiag)

\* statsUpdateHost after uStatsAdd (a): save the stats in case we crash
UpdateAdded(v, fs, lsv, hostname, p, todayTime, w, changed, saved, a) ==
    IF a.exit = "panic"
    THEN UpdateResult("panic", a.stats, v.versions, fs, lsv, changed, saved, a)
    ELSE UpdateResult("done", a.stats, v.versions,
             uSaveStats(fs, a.stats, v.versions, hostname, p.ver, todayTime,
                        w[2]),
             lsv, changed, saved, a)

\* statsUpdateHost after uStatsVerify (v): add the stats of the last hour
UpdateVerified(v, fs, lsv, hostname, p, todayTime, ords, w, changed, saved) ==
    UpdateAdded(v, fs, lsv, hostname, p, todayTime, w, changed, saved,
                uStatsAdd(v.stats, hostname, p.in, ords[1], ords[2]))

\* statsUpdateHost after the reload, if any (l): verify the host
UpdateReloaded(l, fs, lsv, hostname, p, todayTime, ords, w, changed, saved) ==
    IF l.panic
    THEN UpdateResult("panic", l.stats, l.versions, fs, lsv, changed, saved,
                      NoAdd)
    ELSE UpdateVerified(uStatsVerify(l.stats, l.versions, hostname, p.ver,
                                     p.bsecs),
                        fs, lsv, hostname, p, todayTime, ords, w, changed,
                        saved)

\* statsUpdateHost, "if reload || serviceVersionChanged", after the save
\* that wrote fs2: load the files of the version the host reports
UpdateSaved(st, sv, fs2, lsv, hostname, p, todayTime, ords, w, changed) ==
    UpdateReloaded(uLoadStats(st, sv, fs2, hostname, p.ver, p.bsecs,
                              todayTime, ords),
                   fs2, lsv, hostname, p, todayTime, ords, w, changed,
                   IF w[1] THEN statsFilename(hostname, p.ver, todayTime)
                   ELSE <<>>)

\* statsUpdateHost once the host is loaded: on a reload or a change of the
\* service version, save under the version the host reports and load again
UpdateChanged(st, sv, fs, lsv, hostname, reload, p, todayTime, ords, w, changed) ==
    IF reload \/ changed
    THEN UpdateSaved(st, sv,
             uSaveStats(fs, st, sv, hostname, p.ver, todayTime, w[1]),
             lsv, hostname, p, todayTime, ords, w, changed)
    ELSE UpdateReloaded([stats |-> st, versions |-> sv, panic |-> FALSE],
                        fs, lsv, hostname, p, todayTime, ords, w, changed,
                        <<>>)

\* statsUpdateHost after the first load of a host (l), which clears
\* serviceVersionChanged
UpdateFirst(l, fs, lsv, hostname, reload, p, todayTime, ords, w) ==
    IF l.panic
    THEN UpdateResult("panic", l.stats, l.versions, fs, lsv, FALSE, <<>>,
                      NoAdd)
    ELSE UpdateChanged(l.stats, l.versions, fs, lsv, hostname, reload, p,
                       todayTime, ords, w, FALSE)

\* statsUpdateHost after watcherGetStats (g)
UpdateFetched(st, sv, fs, g, hostname, reload, p, todayTime, ords, w) ==
    IF g.err
    THEN UpdateResult("err", st, sv, fs, g.lsv, FALSE, <<>>, NoAdd)
    ELSE IF ~uStatsLoaded(st, sv, hostname)
    THEN UpdateFirst(uLoadStats(st, sv, fs, hostname, p.ver, p.bsecs,
                                todayTime, ords),
                     fs, g.lsv, hostname, reload, p, todayTime, ords, w)
    ELSE UpdateChanged(st, sv, fs, g.lsv, hostname, reload, p, todayTime,
                       ords, w, g.serviceVersionChanged)

\* statsUpdateHost(hostname, hostaddr, reload): p is the answer of the
\* host, ords the visit orders of the range loops, w the outcomes of the
\* two file writes
statsUpdateHost(st, sv, fs, lsv, hostname, reload, p, todayTime, ords, w) ==
    UpdateFetched(st, sv, fs, watcherGetStats(lsv, hostname, p), hostname,
                  reload, p, todayTime, ords, w)

(***************************************************************************)
(* statsUpdateHost under its mutex (src/unnamed/part_002, lines 625-685).  *)
(* The call locks statsLock and unlocks it on return (defer); uSaveStats   *)
(* calls writeFileLocally, which calls statsExtract, which locks statsLock *)
(* again (lines 528-529).  A step of a goroutine runs from one operation   *)
(* on the mutex to the next.                                               *)
(***************************************************************************)
\* sync.Mutex unlocked
NoOwner == ""

\* a sync.Mutex that lets every Lock through
MutexFree_Always(owner) == TRUE

\* statsLock.Lock() returns only when no goroutine holds the mutex, the
\* caller included
MutexFree(owner) == owner = NoOwner

\* "len(addedStats) > 0 && time.Now().UTC().Unix() > statsInitCompleted+60"
FanOutDue(addedStats, t, initCompleted) ==
    DOMAIN addedStats /= {} /\ t > initCompleted + 60

\* where a cycle stands when it next asks for the mutex or returns
CycleAt(at, from, st, sv, lsv, addedStats, panic) ==
    [at |-> at, from |-> from, stats |-> st, versions |-> sv, lsv |-> lsv,
     addedStats |-> addedStats, panic |-> panic]

\* the cycle after uStatsVerify (v): uStatsAdd, then the save of line 675
CycleVerified(v, lsv, hostname, p, ords) ==
    LET a == uStatsAdd(v.stats, hostname, p.in, ords[1], ords[2])
    IN  CycleAt("extract", "save", a.stats, v.versions, lsv, a.addedStats,
                a.exit = "panic")

\* the cycle once the host is loaded (l): the save of line 654 on a reload
\* or a change of the version, else uStatsVerify
CycleLoaded(l, lsv, hostname, reload, changed, p, ords) ==
    IF l.panic
    THEN CycleAt("return", "", l.stats, l.versions, lsv, EmptyMap, TRUE)
    ELSE IF reload \/ changed
    THEN CycleAt("extract", "presave", l.stats, l.versions, lsv, EmptyMap,
                 FALSE)
    ELSE CycleVerified(uStatsVerify(l.stats, l.versions, hostname, p.ver,
                                    p.bsecs),
                       lsv, hostname, p, ords)

\* the cycle after watcherGetStats (g), up to its next Lock or its return
CycleFetched(st, sv, fs, g, hostname, reload, p, todayTime, ords) ==
    IF g.err
    THEN CycleAt("return", "", st, sv, g.lsv, EmptyMap, FALSE)
    ELSE IF ~uStatsLoaded(st, sv, hostname)
    THEN CycleLoaded(uLoadStats(st, sv, fs, hostname, p.ver, p.bsecs,
                                todayTime, ords),
                     g.lsv, hostname, reload, FALSE, p, ords)
    ELSE CycleLoaded([stats |-> st, versions |-> sv, panic |-> FALSE],
                     g.lsv, hostname, reload, g.serviceVersionChanged, p,
                     ords)

(***************************************************************************)
(* ConvertStatsFromAbsoluteToRelative (src/unnamed/part_005, lines         *)
(* 426-556).  A StatsStat of the converter carries the fields the          *)
(* converter rewrites: the four handler kinds are the functions Activated  *)
(* and Deactivated over HandlerKinds, the maps Databases, API and Fatals   *)
(* are functions over the keys present (a nil map is the empty one).       *)
(* HttpConnTotal and HttpConnReused are treated like OSDiskRead, Caches    *)
(* like API, and are left out.                                             *)
(***************************************************************************)
\* the modulus of the unsigned counters, 2^64 in the code, narrowed so that
\* a difference below zero still wraps around
Uint64Mod == 16

\* a - b on uint64
Sub64(a, b) == (a - b) % Uint64Mod

HandlerKinds == {"Discovery", "Continuous", "Notification", "Ephemeral"}

\* StatsStat{}
ZeroStat ==
    [SnapshotTaken |-> 0, BucketMins |-> 0, OSDiskRead |-> 0,
     OSDiskWrite |-> 0, OSNetReceived |-> 0, OSNetSent |-> 0,
     Activated |-> [k \in HandlerKinds |-> 0],
     Deactivated |-> [k \in HandlerKinds |-> 0],
     EventsEnqueued |-> 0, EventsDequeued |-> 0, EventsRouted |-> 0,
     Databases |-> [k \in {} |-> 0], API |-> [k \in {} |-> 0],
     Fatals |-> [k \in {} |-> 0]]

\* a slip that subtracts the net counters like the plain ones
NetDelta_Wrapping(cur, prev) == Sub64(cur, prev)

\* OSNetReceived and OSNetSent: the current value is lifted to the next
\* one when that is larger, then the next one is subtracted
NetDelta(cur, prev) == Sub64(IF prev > cur THEN prev ELSE cur, prev)

\* the handler counters of the earlier revision (src/unnamed/part_009,
\* lines 629-639), which zeroes Deactivated
HandlersDelta_Zeroed(cur, prev) ==
    [cur EXCEPT !.Activated = [k \in HandlerKinds |->
                                  cur.Activated[k] - prev.Activated[k]],
                !.Deactivated = [k \in HandlerKinds |-> 0]]

\* the handler counters: Deactivated becomes the count currently active,
\* then Activated becomes the new activations
HandlersDelta(cur, prev) ==
    LET d == [cur EXCEPT !.Deactivated = [k \in HandlerKinds |->
                             cur.Activated[k] - cur.Deactivated[k]]]
    IN  [d EXCEPT !.Activated = [k \in HandlerKinds |->
                                    d.Activated[k] - prev.Activated[k]]]

\* total milliseconds turned into milliseconds per operation
AverageMs(ms, n) == IF n > 0 THEN TruncDiv(ms, n) ELSE ms

\* one database of stats[i] whose key is present in stats[i+1]
DatabaseDelta(vcur, vprev) ==
    [Reads |-> vcur.Reads - vprev.Reads,
     ReadMs |-> AverageMs(vcur.ReadMs - vprev.ReadMs,
                          vcur.Reads - vprev.Reads),
     Writes |-> vcur.Writes - vprev.Writes,
     WriteMs |-> AverageMs(vcur.WriteMs - vprev.WriteMs,
                           vcur.Writes - vprev.Writes)]

DatabasesDelta(cur, prev) ==
    [k \in DOMAIN cur |->
        IF k \in DOMAIN prev THEN DatabaseDelta(cur[k], prev[k]) ELSE cur[k]]

\* the maps API and Fatals
CountsDelta(cur, prev) ==
    [k \in DOMAIN cur |->
        IF k \in DOMAIN prev THEN cur[k] - prev[k] ELSE cur[k]]

\* one pass of the loop: stats[i] (cur) rewritten against stats[i+1] (prev)
ConvertOne(cur, prev, bucketSecs) ==
    HandlersDelta(
        [cur EXCEPT
            !.SnapshotTaken = TruncDiv(@, bucketSecs) * bucketSecs,
            !.BucketMins = 0,
            !.OSDiskRead = Sub64(@, prev.OSDiskRead),
            !.OSDiskWrite = Sub64(@, prev.OSDiskWrite),
            !.OSNetReceived = NetDelta(@, prev.OSNetReceived),
            !.OSNetSent = NetDelta(@, prev.OSNetSent),
            !.EventsEnqueued = @ - prev.EventsEnqueued,
            !.EventsDequeued = 0,
            !.EventsRouted = @ - prev.EventsRouted,
            !.Databases = DatabasesDelta(@, prev.Databases),
            !.API = CountsDelta(@, prev.API),
            !.Fatals = CountsDelta(@, prev.Fatals)],
        prev)

\* for i := 0; i < len(stats)-1; i++, in place (index i here is i-1 in Go)
RECURSIVE ConvertLoop(_, _, _)
ConvertLoop(sistats, i, bucketSecs) ==
    IF i > Len(sistats) - 1 THEN sistats
    ELSE ConvertLoop([sistats EXCEPT
                         ![i] = ConvertOne(sistats[i], sistats[i + 1], bucketSecs)],
                     i + 1, bucketSecs)

\* the single stat returned just after a server reboot
SingleStat(st) ==
    [st EXCEPT !.Databases =
        [k \in DOMAIN @ |->
            [@[k] EXCEPT !.ReadMs = AverageMs(@, st.Databases[k].Reads),
                         !.WriteMs = AverageMs(@, st.Databases[k].Writes)]]]

\* the converter after its prep work
ConvertPrepared(sistats, bucketSecs) ==
    IF Len(sistats) = 1 THEN <<SingleStat(sistats[1])>>
    ELSE SubSeq(ConvertLoop(sistats, 1, bucketSecs), 1, Len(sistats) - 1)

\* the prep work: an empty input gets one zero stat, and the time of the
\* first stat is snapped to the grid
ConvertPrep(sistats, bucketSecs) ==
    [(IF Len(sistats) = 0 THEN <<ZeroStat>> ELSE sistats) EXCEPT
        ![1].SnapshotTaken = TruncDiv(@, bucketSecs) * bucketSecs]

ConvertStatsFromAbsoluteToRelative(sistats, bucketSecs) ==
    ConvertPrepared(ConvertPrep(sistats, bucketSecs), bucketSecs)

(***************************************************************************)
(* The loop of watcherGetStats over the service instances of a host        *)
(* (src/unnamed/part_005, lines 576-637).  The answer of an instance is    *)
(* the record [siid, infoErr, ver, lb]: infoErr says that                  *)
(* getServiceInstanceInfo failed, ver is the service version of the ping   *)
(* body and lb its LBStatus, the live sample first.                        *)
(***************************************************************************)
\* the loop from instance i on: acc is (err, ss.BucketSecs, stats) so far
RECURSIVE InstanceLoop(_, _, _, _)
InstanceLoop(ans, i, serviceVersion, acc) ==
    IF i > Len(ans) THEN acc
    ELSE IF ans[i].infoErr THEN [acc EXCEPT !.err = "info"]
    ELSE IF Len(ans[i].lb) = 0
    THEN InstanceLoop(ans, i + 1, serviceVersion, [acc EXCEPT !.err = ""])
    ELSE IF Len(ans[i].lb) < 3
    THEN InstanceLoop(ans, i + 1, serviceVersion,
             [acc EXCEPT
                 !.err = IF ans[i].ver /= serviceVersion THEN "version" ELSE "",
                 !.bucketSecs = ans[i].lb[1].BucketMins * 60])
    ELSE InstanceLoop(ans, i + 1, serviceVersion,
             [acc EXCEPT
                 !.err = IF ans[i].ver /= serviceVersion THEN "version" ELSE "",
                 !.bucketSecs = ans[i].lb[1].BucketMins * 60,
                 !.stats = MapPut(@, ans[i].siid,
                               ConvertStatsFromAbsoluteToRelative(
                                   Tail(ans[i].lb),
                                   ans[i].lb[1].BucketMins * 60))])

\* watcherGetStats once watcherGetServiceInstances returned the version
\* and the instances without an error
watcherGetInstanceStats(ans, serviceVersion) ==
    InstanceLoop(ans, 1, serviceVersion,
                 [err |-> "", bucketSecs |-> 0, stats |-> EmptyMap])

(***************************************************************************)
(* The canary (src/unnamed/part_001): inboundWebCanaryHandler.  A serial   *)
(* number and the text of body.why are sequences, of characters and of     *)
(* words.  An event is the record [notefile, uid, sn, sessionID, body,     *)
(* why, count, when, received, routed]: body says that the event has a     *)
(* body, routed is time.Now() when the handler takes the event.  Events    *)
(* that the handler returns on at once (a GET, a body that is no event)    *)
(* and bodies without "why" or "count" are not delivered here.             *)
(***************************************************************************)
\* strings.HasPrefix
HasPrefix(str, prefix) ==
    /\ Len(str) >= Len(prefix)
    /\ SubSeq(str, 1, Len(prefix)) = prefix

\* strings.Contains on the words of a text
Contains(text, word) == \E i \in DOMAIN text : text[i] = word

Ntn == <<"n", "t", "n">>

\* lastEvent{} and deviceContext{}, what a missing key of the maps reads as
ZeroLastEvent == [sessionID |-> "", seqNo |-> 0, capturedTime |-> 0, receivedTime |-> 0, routedTime |-> 0]

ZeroDeviceContext == [sn |-> <<>>, continuous |-> FALSE, warnings |-> 0]

\* device[uid] and last[uid]
DeviceOf(dev, uid) == IF uid \in DOMAIN dev THEN dev[uid] ELSE ZeroDeviceContext

LastOf(lst, uid) == IF uid \in DOMAIN lst THEN lst[uid] ELSE ZeroLastEvent

\* thresholds that ignore the serial number
secsCapturedToReceived_Standard(sn) == 120

secsReceivedToReceived_Standard(sn) == 5 * 60

\* the thresholds of a device: for NTN the packet interval is 15m
secsCapturedToReceived(sn) == IF HasPrefix(sn, Ntn) THEN 20 * 60 ELSE 120

secsReceivedToReceived(sn) == IF HasPrefix(sn, Ntn) THEN 25 * 60 ELSE 5 * 60

\* errstr: the rule that wrote it ("" for none) and the numbers it prints
Errstr(rule, n, m) == [rule |-> rule, n |-> n, m |-> m]

\* a chain that looks at the routing time first
CanaryAlert_RoutedFirst(d, l, t) ==
    IF (t.routedTime - t.receivedTime) > 10
    THEN Errstr("routed", t.routedTime - t.receivedTime, 0)
    ELSE IF d.continuous /\ t.sessionID /= l.sessionID
    THEN Errstr("session", 0, 0)
    ELSE IF t.seqNo /= l.seqNo + 1
    THEN Errstr("sequence", l.seqNo + 1, t.seqNo)
    ELSE IF (t.receivedTime - t.capturedTime) > secsCapturedToReceived(d.sn)
    THEN Errstr("captured", t.receivedTime - t.capturedTime, 0)
    ELSE IF (t.receivedTime - l.receivedTime) > secsReceivedToReceived(d.sn)
    THEN Errstr("received", TruncDiv(t.routedTime - t.receivedTime, 60), 0)
    ELSE Errstr("", 0, 0)

\* the if-else chain of lines 121-132 for the device d, its last event l
\* and the event t
CanaryAlert(d, l, t) ==
    IF d.continuous /\ t.sessionID /= l.sessionID
    THEN Errstr("session", 0, 0)
    ELSE IF t.seqNo /= l.seqNo + 1
    THEN Errstr("sequence", l.seqNo + 1, t.seqNo)
    ELSE IF (t.receivedTime - t.capturedTime) > secsCapturedToReceived(d.sn)
    THEN Errstr("captured", t.receivedTime - t.capturedTime, 0)
    ELSE IF (t.routedTime - t.receivedTime) > 10
    THEN Errstr("routed", t.routedTime - t.receivedTime, 0)
    ELSE IF (t.receivedTime - l.receivedTime) > secsReceivedToReceived(d.sn)
    THEN Errstr("received", TruncDiv(t.routedTime - t.receivedTime, 60), 0)
    ELSE Errstr("", 0, 0)

\* what a delivery leaves behind: the two maps and the messages sent
\* (present, d and l are what the handler read: the context, with the
\* serial number of the event, and the last event)
Handled(dev, lst, e, present, d, l, alerts) ==
    [device |-> dev, last |-> lst,
     entry |-> [e |-> e, present |-> present, d |-> d, l |-> l,
                alerts |-> alerts]]

\* (a session that starts the warnings of the device afresh)
SessionHandled_Fresh(dev, lst, e) ==
    Handled(MapPut(dev, e.uid, [ZeroDeviceContext EXCEPT !.sn = e.sn]), lst,
            e, e.uid \in DOMAIN dev, [ZeroDeviceContext EXCEPT !.sn = e.sn],
            LastOf(lst, e.uid), <<>>)

\* "_session.qo": remember info about the last session
SessionHandled(dev, lst, e) ==
    LET present == e.uid \in DOMAIN dev
        d == DeviceOf(dev, e.uid)
        d2 == IF present /\ e.body
              THEN [d EXCEPT !.continuous = Contains(e.why, "continuous")]
              ELSE d
    IN  Handled(MapPut(dev, e.uid, [d2 EXCEPT !.sn = e.sn]), lst, e, present,
                [d2 EXCEPT !.sn = e.sn], LastOf(lst, e.uid), <<>>)

\* the lastEvent of a "_temp.qo" event
LatenciesOf(e) ==
    [sessionID |-> e.sessionID, seqNo |-> IF e.body THEN e.count ELSE 0,
     capturedTime |-> e.when, receivedTime |-> e.received,
     routedTime |-> e.routed]

\* a handler that does not remember an event it has alerted on
TempAlerted_Forgotten(dev, lst, e, d, alert) ==
    Handled(MapPut(dev, e.uid, d),
            IF alert.rule = "" THEN MapPut(lst, e.uid, LatenciesOf(e))
            ELSE lst,
            e, TRUE, d, LastOf(lst, e.uid),
            IF alert.rule = "" THEN <<>> ELSE <<alert>>)

\* "_temp.qo" of a device with a context (d is the context with the serial
\* number of the event): alert, then remember the event
TempAlerted(dev, lst, e, d, alert) ==
    Handled(MapPut(dev, e.uid, d), MapPut(lst, e.uid, LatenciesOf(e)), e,
            TRUE, d, LastOf(lst, e.uid),
            IF alert.rule = "" THEN <<>> ELSE <<alert>>)

TempPresent(dev, lst, e, d) ==
    TempAlerted(dev, lst, e, d, CanaryAlert(d, LastOf(lst, e.uid), LatenciesOf(e)))

\* (a handler that evaluates the rules for a device it has no context of)
TempHandled_Unknown(dev, lst, e) ==
    TempPresent(dev, lst, e, [DeviceOf(dev, e.uid) EXCEPT !.sn = e.sn])

\* "_temp.qo"
TempHandled(dev, lst, e) ==
    IF e.uid \in DOMAIN dev
    THEN TempPresent(dev, lst, e, [dev[e.uid] EXCEPT !.sn = e.sn])
    ELSE Handled(dev, MapPut(lst, e.uid, LatenciesOf(e)), e, FALSE,
                 ZeroDeviceContext, LastOf(lst, e.uid), <<>>)

\* inboundWebCanaryHandler for a POST with an event
inboundWebCanaryHandler(dev, lst, e) ==
    IF e.notefile = "_session.qo" THEN SessionHandled(dev, lst, e)
    ELSE IF e.notefile /= "_temp.qo"
    THEN Handled(dev, lst, e, e.uid \in DOMAIN dev, DeviceOf(dev, e.uid),
                 LastOf(lst, e.uid), <<>>)
    ELSE TempHandled(dev, lst, e)

(***************************************************************************)
(* The inputs of the operations.                                           *)
(***************************************************************************)
\* the OSMemTotal carried by the real buckets of the n-th operation, so
\* that a bucket delivered again later is told apart from the stored one
RealMem(n) == 1024 * (n + 1)

\* a window of n buckets, most recent first, starting at grid time t;
\* pat[i] = 1 makes bucket i real
Regular(t, n, pat, r) ==
    [i \in 1..n |->
        [SnapshotTaken |-> GridTime(t - i + 1),
         OSMemTotal |-> IF pat[i] = 1 THEN r ELSE 0]]

AllReal(n) == [i \in 1..n |-> 1]

Windows == {w \in (1..MaxT) \X (1..MaxIn) : w[1] - w[2] + 1 >= 1}

\* the patterns of real and placeholder buckets of a window of n buckets:
\* all real, all placeholders, or real buckets followed by one placeholder
Patterns(n) ==
    {AllReal(n), [i \in 1..n |-> 0]}
    \cup {[i \in 1..n |-> IF i = n THEN 0 ELSE 1]}

RegularSeries(r) ==
    UNION {{Regular(w[1], w[2], pat, r) : pat \in Patterns(w[2])} :
              w \in Windows}

RealWindows(r) == {Regular(w[1], w[2], AllReal(w[2]), r) : w \in Windows}

\* series that are not a descending grid: a gap, a repeated time and an
\* ascending pair
IrregularSeries(r) ==
    {<<[SnapshotTaken |-> GridTime(MaxT), OSMemTotal |-> r],
       [SnapshotTaken |-> GridTime(MaxT + d), OSMemTotal |-> r]>> :
         d \in {-2, 0, 1}}

Single(k, sis) == [x \in {k} |-> sis]

\* the maps handed to uStatsAdd: nil, empty, one series, or one series per
\* service instance (the same window, or windows that differ)
IncomingMaps(r) ==
    {[nil |-> TRUE, m |-> EmptyMap], [nil |-> FALSE, m |-> EmptyMap]}
    \cup {[nil |-> FALSE, m |-> Single(k, sis)] :
             k \in SIIDs, sis \in RegularSeries(r) \cup IrregularSeries(r)}
    \cup {[nil |-> FALSE, m |-> f] :
             f \in [SIIDs -> RealWindows(r)]}

\* the orders in which a range loop may visit the keys K
OrdersOf(K) == {KeysIn(o, [k \in K |-> 0]) : o \in Orders}

(***************************************************************************)
(* The state machine: the store's operations called in any order.          *)
(***************************************************************************)
\* the record of the last operation: its name, its arguments (in, ver,
\* bsecs), what it returned (exit, added, addedStats, diag, exit2) and, for
\* Verify, the number of series stored before it (had); for UpdateHost also
\* whether the version was found changed, the argument reload, the version
\* the grid had before (old) and the file written before the reload (saved)
NoOp == [op |-> "init", in |-> [nil |-> TRUE, m |-> EmptyMap],
         exit |-> "", added |-> 0, addedStats |-> EmptyMap, diag |-> NoDiag,
         exit2 |-> "", ver |-> "", bsecs |-> 0, had |-> 0,
         changed |-> FALSE, reload |-> FALSE, old |-> "", saved |-> <<>>,
         pingErr |-> FALSE]

\* the maintainer before it samples the day: at is the position in the
\* loop, i the index of the host in turn, reload the argument evaluated for
\* the call in progress
AtTop == [at |-> "top", i |-> 0, reload |-> FALSE]

\* no value was returned by statsExtract yet
NoHeld == [valid |-> FALSE, host |-> "", begin |-> 0, dur |-> 0,
           hs |-> ZeroHostStats, exists |-> FALSE, shared |-> FALSE]

\* the value a caller holds, after an operation on hostname left the store
\* as st: a Go map is a reference, so the writes uStatsAdd and
\* uValidateStats make to the stored map show in a value that shares it;
\* replaced says that the stored row got a new map
HeldAfter(st, hostname, replaced) ==
    IF held.shared /\ held.host = hostname
    THEN IF replaced THEN [held EXCEPT !.shared = FALSE]
         ELSE [held EXCEPT !.hs.Stats = StatsRow(st, hostname).Stats]
    ELSE held

\* the index of a handler kind
KindIndex(k) ==
    CASE k = "Discovery" -> 0 [] k = "Continuous" -> 1
      [] k = "Notification" -> 2 [] OTHER -> 3

\* the bucket lengths of the converter's inputs
ConvBucketSecs == {30, 60}

\* the snapshot at index i of a sequence, most recent first: c is the level
\* of its cumulative counters, n the level of its net counters (OSNetSent
\* runs against OSNetReceived) and of its deactivations; it was taken a few
\* seconds after the start of its bucket; a database, an API and a fatal
\* are present once they were counted
Snapshot(i, c, n, bucketSecs) ==
    [SnapshotTaken |-> (MaxSnaps + 2 - i) * bucketSecs + c + n,
     BucketMins |-> bucketSecs \div 60,
     OSDiskRead |-> c, OSDiskWrite |-> 2 * c,
     OSNetReceived |-> n, OSNetSent |-> MaxCount - n,
     Activated |-> [k \in HandlerKinds |-> c + KindIndex(k)],
     Deactivated |-> [k \in HandlerKinds |-> n],
     EventsEnqueued |-> 2 * c, EventsDequeued |-> c, EventsRouted |-> c,
     Databases |-> [k \in (IF c > 0 THEN {"d"} ELSE {}) |->
                       [Reads |-> c, ReadMs |-> 5 * c,
                        Writes |-> 2 * c, WriteMs |-> 6 * c]],
     API |-> [k \in (IF c > 0 THEN {"a"} ELSE {}) |-> c],
     Fatals |-> [k \in (IF n > 0 THEN {"f"} ELSE {}) |-> c]]

\* the levels (c, n) of a snapshot
Levels == {lv \in (0..MaxCount) \X (0..MaxCount) : lv[1] + lv[2] <= MaxCount}

\* the sequences of 0 .. MaxSnaps snapshots
Snapshots(bucketSecs) ==
    UNION {{[i \in 1..N |-> Snapshot(i, lv[i][1], lv[i][2], bucketSecs)] :
               lv \in [1..N -> Levels]} : N \in 0..MaxSnaps}

\* the converter was not called
NoSnapshots == [stats |-> <<>>, bucketSecs |-> 0]

NotConverted == [done |-> FALSE, out |-> <<>>]

\* the store, the watcher's cache and the maintainer after construction
InitStore ==
    /\ held = NoHeld
    /\ stats = [h \in {} |-> ZeroHostStats]
    /\ statsServiceVersions = [h \in Hosts |-> ""]
    /\ files = [f \in {} |-> ZeroHostStats]
    /\ today = GridTime(2)
    /\ panicked = FALSE
    /\ last = NoOp
    /\ ops = 0
    /\ lastServiceVersions = [h \in {} |-> ""]
    /\ lastUpdatedDay = 0
    /\ pc = AtTop
    /\ updatedDay = [h \in Hosts |-> 0]

\* at most this many service instances answer (MaxInstances below), each
\* in one of these ways: the version of the host and a full hour, another
\* version and a full hour, a failed request, too few samples, no samples
InstanceIds == <<"n1:svc", "n2:svc", "n3:svc", "n4:svc">>

LiveAndTwo == [i \in 1..3 |-> Snapshot(i, 3 - i, 0, 60)]

AnswerKinds ==
    {[infoErr |-> FALSE, ver |-> "v1", lb |-> LiveAndTwo],
     [infoErr |-> FALSE, ver |-> "v2", lb |-> LiveAndTwo],
     [infoErr |-> TRUE, ver |-> "", lb |-> <<>>],
     [infoErr |-> FALSE, ver |-> "v1", lb |-> SubSeq(LiveAndTwo, 1, 2)],
     [infoErr |-> FALSE, ver |-> "v1", lb |-> <<>>]}

InstanceAnswers ==
    UNION {{[i \in 1..N |->
                [siid |-> InstanceIds[i], infoErr |-> k[i].infoErr,
                 ver |-> k[i].ver, lb |-> k[i].lb]] :
               k \in [1..N -> AnswerKinds]} : N \in 1..MaxInstances}

NoAnswers == [ver |-> "", instances |-> <<>>]

NotScraped == [done |-> FALSE, err |-> "", stats |-> EmptyMap]

\* the goroutines that call statsUpdateHost: the maintainer and the handler
\* of a sheet request
Procs == {"maintainer", "sheet"}

\* a goroutine outside statsUpdateHost: at is its position, reload the
\* argument of the call, from the caller of the statsExtract in progress,
\* ver the version the host reported and addedStats what uStatsAdd returned
NoCycle == [at |-> "idle", reload |-> FALSE, from |-> "", ver |-> "", addedStats |-> EmptyMap]

NotPinged == [done |-> FALSE, hostname |-> "", serviceVersion |-> "", pingErr |-> FALSE, cached |-> "", serviceVersionChanged |-> FALSE, err |-> FALSE]

\* the converter was not called
ConvIdle == absolute = NoSnapshots /\ relative = NotConverted

\* watcherGetStats was not called on its own
ScrapeIdle == answers = NoAnswers /\ scraped = NotScraped

\* watcherGetServiceInstances was not called on its own
PingIdle == pinged = NotPinged
\* no goroutine is in statsUpdateHost, and statsInit has just run
LockIdle ==
    /\ statsLock = NoOwner
    /\ cycle = [g \in Procs |-> NoCycle]
    /\ now = 0
    /\ statsInitCompleted = 0
    /\ uploaded = [g \in Procs |-> FALSE]

\* the canary has not heard of any device
CanaryIdle ==
    /\ device = EmptyMap
    /\ canaryLast = EmptyMap
    /\ delivered = <<>>

\* the sweep task sleeps and has not run yet
NotSweeping ==
    [at |-> "idle", now |-> 0, keys |-> {}, visited |-> {}, uid |-> "",
     d |-> ZeroDeviceContext, l |-> ZeroLastEvent, sweeps |-> 0,
     locked |-> TRUE]

SweepIdle ==
    /\ clock = StreamStart
    /\ sweep = NotSweeping
    /\ swept = <<>>

NotAggregated == [done |-> FALSE, out |-> <<>>]

NotReloading ==
    [at |-> "idle", hostname |-> "", serviceVersion |-> "", bucketSecs |-> 0,
     locked |-> TRUE]

NotWatching == [by |-> "", seen |-> EmptyMap]

NetIdle == [pc |-> 0, held |-> {}, call |-> "", calls |-> 0]

LateIdle ==
    /\ allStats = EmptyMap
    /\ aggregated = NotAggregated
    /\ loading = NotReloading
    /\ net = [t \in {"command", "maintainer", "sweep"} |-> NetIdle]
    /\ watch = NotWatching

MoreIdle == SweepIdle /\ LateIdle

AuxIdle == ScrapeIdle /\ PingIdle /\ LockIdle /\ CanaryIdle /\ MoreIdle

Init == InitStore /\ ConvIdle /\ AuxIdle

Verify(hostname, serviceVersion, bucketSecs) ==
    /\ ~panicked
    /\ LET v == uStatsVerify(stats, statsServiceVersions, hostname,
                             serviceVersion, bucketSecs)
       IN  /\ stats' = v.stats
           /\ statsServiceVersions' = v.versions
           /\ held' = HeldAfter(v.stats, hostname,
                                serviceVersion /= statsServiceVersions[hostname])
    /\ last' = [NoOp EXCEPT
                   !.op = "Verify", !.ver = serviceVersion,
                   !.bsecs = bucketSecs,
                   !.exit = IF serviceVersion /= statsServiceVersions[hostname]
                            THEN "reset" ELSE "same",
                   !.had = Cardinality(DOMAIN StatsRow(stats, hostname).Stats)]
    /\ ops' = ops + 1
    /\ UNCHANGED <<files, today, panicked>>
    /\ UNCHANGED maintVars
    /\ UNCHANGED convVars
    /\ UNCHANGED auxVars

Add(hostname, in, ord1, ord2) ==
    /\ ~panicked
    /\ LET r == uStatsAdd(stats, hostname, in, ord1, ord2)
       IN  /\ stats' = r.stats
           /\ held' = HeldAfter(r.stats, hostname, FALSE)
           /\ panicked' = (r.exit = "panic")
           /\ last' = [NoOp EXCEPT
                          !.op = "Add", !.in = in, !.exit = r.exit,
                          !.added = r.added, !.addedStats = r.addedStats,
                          !.diag = r.diag]
    /\ ops' = ops + 1
    /\ UNCHANGED <<statsServiceVersions, files, today>>
    /\ UNCHANGED maintVars
    /\ UNCHANGED convVars
    /\ UNCHANGED auxVars

Reload(hostname, serviceVersion, bucketSecs, ords) ==
    /\ ~panicked
    /\ LET r == uLoadStats(stats, statsServiceVersions, files, hostname,
                           serviceVersion, bucketSecs, today, ords)
       IN  /\ stats' = r.stats
           /\ statsServiceVersions' = r.versions
           /\ held' = HeldAfter(r.stats, hostname, serviceVersion /= "")
           /\ panicked' = r.panic
           /\ last' = [NoOp EXCEPT !.op = "Reload", !.exit = r.today.exit,
                                   !.exit2 = r.yesterday.exit,
                                   !.ver = serviceVersion,
                                   !.bsecs = bucketSecs]
    /\ ops' = ops + 1
    /\ UNCHANGED <<files, today>>
    /\ UNCHANGED maintVars
    /\ UNCHANGED convVars
    /\ UNCHANGED auxVars

Save(hostname, serviceVersion, writeOk) ==
    /\ ~panicked
    /\ files' = uSaveStats(files, stats, statsServiceVersions, hostname,
                           serviceVersion, today, writeOk)
    /\ last' = [NoOp EXCEPT !.op = "Save", !.ver = serviceVersion,
                             !.exit = IF writeOk THEN "written" ELSE "failed"]
    /\ ops' = ops + 1
    /\ UNCHANGED <<stats, statsServiceVersions, today, panicked, held>>
    /\ UNCHANGED maintVars
    /\ UNCHANGED convVars
    /\ UNCHANGED auxVars

\* the UTC day rolls over
DayTick ==
    /\ ~panicked
    /\ today + secs1Day <= GridTime(MaxT)
    /\ today' = today + secs1Day
    /\ last' = [NoOp EXCEPT !.op = "DayTick"]
    /\ ops' = ops + 1
    /\ UNCHANGED <<stats, statsServiceVersions, files, panicked, held>>
    /\ UNCHANGED maintVars
    /\ UNCHANGED convVars
    /\ UNCHANGED auxVars

\* statsExtract called by a reader that keeps the value it got back
Extract(hostname, beginTime, duration) ==
    /\ ~panicked
    /\ LET r == statsExtract(stats, statsServiceVersions, hostname,
                             beginTime, duration)
       IN  held' = [valid |-> TRUE, host |-> hostname, begin |-> beginTime,
                    dur |-> duration, hs |-> r.hs, exists |-> r.exists,
                    shared |-> /\ uStatsLoaded(stats, statsServiceVersions,
                                               hostname)
                               /\ duration = 0
                               /\ ~r.hs.StatsNil]
    /\ last' = [NoOp EXCEPT !.op = "Extract"]
    /\ ops' = ops + 1
    /\ UNCHANGED <<stats, statsServiceVersions, files, today, panicked>>
    /\ UNCHANGED maintVars
    /\ UNCHANGED convVars
    /\ UNCHANGED auxVars

\* the visit orders of the two range loops of uStatsAdd for the map m
AddOrders(h, m) ==
    OrdersOf(DOMAIN m) \X OrdersOf(DOMAIN StatsRow(stats, h).Stats \cup DOMAIN m)

\* the store's operations, called in any order with any of the inputs
StoreVerify ==
    ops < MaxOps /\ \E h \in Hosts, v \in Versions, b \in BucketSecsSet :
        Verify(h, v, b)

StoreAdd ==
    ops < MaxOps /\ \E h \in Hosts, in \in IncomingMaps(RealMem(ops)) :
        \E o \in AddOrders(h, in.m) : Add(h, in, o[1], o[2])

StoreReload ==
    ops < MaxOps /\ \E h \in Hosts, v \in Versions, b \in BucketSecsSet,
                       ords \in [1..4 -> Orders] : Reload(h, v, b, ords)

StoreSave ==
    ops < MaxOps /\ \E h \in Hosts, v \in Versions, w \in BOOLEAN :
        Save(h, v, w)

StoreDayTick == ops < MaxOps /\ DayTick

Next == StoreVerify \/ StoreAdd \/ StoreReload \/ StoreSave \/ StoreDayTick

Spec == Init /\ [][Next]_vars

(***************************************************************************)
(* One service instance polled again and again: the host is verified and   *)
(* fed one all-real window per poll.                                       *)
(***************************************************************************)
PollMaps(r) ==
    {[nil |-> FALSE, m |-> Single("n1:svc", sis)] : sis \in RealWindows(r)}

PollVerify ==
    ops < MaxPolls /\ \E h \in Hosts, v \in Versions, b \in BucketSecsSet :
        Verify(h, v, b)

PollAdd ==
    ops < MaxPolls /\ \E h \in Hosts, in \in PollMaps(RealMem(ops)) :
        \E o \in AddOrders(h, in.m) : Add(h, in, o[1], o[2])

NextPolls == PollVerify \/ PollAdd

SpecPolls == Init /\ [][NextPolls]_vars

(***************************************************************************)
(* The polls of a host whose answers overlap: every poll returns the       *)
(* buckets of the last hour, those of the poll before among them, with the *)
(* same contents.                                                          *)
(***************************************************************************)
OverlapAdd ==
    ops < MaxPolls /\ \E h \in Hosts, in \in PollMaps(RealMem(0)) :
        \E o \in AddOrders(h, in.m) : Add(h, in, o[1], o[2])

NextOverlap == PollVerify \/ OverlapAdd

SpecOverlap == Init /\ [][NextOverlap]_vars

(***************************************************************************)
(* The polls of one service instance with a reader (the sheet request      *)
(* handler) that extracts a slice or the whole grid between them.          *)
(***************************************************************************)
\* the slices a reader asks for: duration 0 is the whole grid
ExtractDurations == {0, secs1Day, 2 * secs1Day}

PollExtract ==
    ops < MaxPolls /\ \E h \in Hosts, t \in 1..MaxT, d \in ExtractDurations :
        Extract(h, GridTime(t), d)

NextExtract == PollVerify \/ PollAdd \/ PollExtract

SpecExtract == Init /\ [][NextExtract]_vars

(***************************************************************************)
(* The polls of one service instance with the day files: the grid is       *)
(* saved and loaded again under any of the service versions.               *)
(***************************************************************************)
FileSave ==
    ops < MaxPolls /\ \E h \in Hosts, v \in Versions, w \in BOOLEAN :
        Save(h, v, w)

FileReload ==
    ops < MaxPolls /\ \E h \in Hosts, v \in Versions, b \in BucketSecsSet,
                         ords \in [1..4 -> Orders] : Reload(h, v, b, ords)

NextFiles == PollVerify \/ PollAdd \/ FileSave \/ FileReload

SpecFiles == Init /\ [][NextFiles]_vars

(***************************************************************************)
(* The maintainer goroutine: statsMaintainer samples the day, waits, and   *)
(* updates every enabled host; the day may roll over at any point, also    *)
(* while an update is waiting for the answer of its host.                  *)
(***************************************************************************)
\* Config.MonitoredHosts
MonitoredHosts ==
    <<[Name |-> "prod", Disabled |-> FALSE],
      [Name |-> "staging", Disabled |-> TRUE]>>

\* the service instance of a service version: node IDs change with it
SiidOf(v) == IF v = "v1" THEN "n1:svc" ELSE "n2:svc"

\* the answers of a host, whose buckets are a day long: one all-real
\* window, ending with the bucket of today, of the one service instance
\* of the version, no stats yet (the
\* node has not been up long enough), a node that fails to answer, and a
\* failed ping
NoStats == [nil |-> FALSE, m |-> EmptyMap]

HostPolls(r, todayTime) ==
    {[pingErr |-> FALSE, nodeErr |-> FALSE, ver |-> v, bsecs |-> secs1Day,
      in |-> [nil |-> FALSE, m |-> Single(SiidOf(v), sis)]] :
        v \in Versions,
        sis \in {x \in RealWindows(r) : x[1].SnapshotTaken = todayTime}}
    \cup {[pingErr |-> FALSE, nodeErr |-> e, ver |-> v, bsecs |-> secs1Day,
           in |-> NoStats] : v \in Versions, e \in BOOLEAN}
    \cup {[pingErr |-> TRUE, nodeErr |-> FALSE, ver |-> "", bsecs |-> 0,
           in |-> NoStats]}

\* the visit orders of one cycle (every range loop of the cycle visits the
\* keys in the same order) and the outcomes of its file writes (both
\* succeed or both fail)
CycleOrders == {[i \in 1..4 |-> o] : o \in Orders}

CycleWrites == {[i \in 1..2 |-> b] : b \in BOOLEAN}

\* the position after the host at index i
AfterHost(i) ==
    IF i < Len(MonitoredHosts)
    THEN [at |-> "hosts", i |-> i + 1, reload |-> FALSE]
    ELSE AtTop

\* lastUpdatedDay := todayTime()
MaintTop ==
    /\ ~panicked
    /\ pc.at = "top"
    /\ lastUpdatedDay' = today
    /\ pc' = [pc EXCEPT !.at = "wait"]
    /\ UNCHANGED <<stats, statsServiceVersions, files, today, panicked, last, ops, held, lastServiceVersions, updatedDay>>
    /\ UNCHANGED convVars
    /\ UNCHANGED auxVars

\* statsMaintainNow.Wait returns
MaintWait ==
    /\ ~panicked
    /\ pc.at = "wait"
    /\ pc' = [at |-> "hosts", i |-> 1, reload |-> FALSE]
    /\ UNCHANGED <<stats, statsServiceVersions, files, today, panicked, last, ops, held, lastServiceVersions, lastUpdatedDay, updatedDay>>
    /\ UNCHANGED convVars
    /\ UNCHANGED auxVars

\* a disabled host is passed over
MaintSkip ==
    /\ ~panicked
    /\ pc.at = "hosts"
    /\ MonitoredHosts[pc.i].Disabled
    /\ pc' = AfterHost(pc.i)
    /\ UNCHANGED <<stats, statsServiceVersions, files, today, panicked, last, ops, held, lastServiceVersions, lastUpdatedDay, updatedDay>>
    /\ UNCHANGED convVars
    /\ UNCHANGED auxVars

\* statsUpdateHost is called for an enabled host: the argument reload is
\* evaluated, the lock is taken and the host is asked for its stats
MaintCall ==
    /\ ~panicked
    /\ pc.at = "hosts"
    /\ ~MonitoredHosts[pc.i].Disabled
    /\ pc' = [pc EXCEPT !.at = "fetch", !.reload = (lastUpdatedDay /= today)]
    /\ updatedDay' = [updatedDay EXCEPT ![MonitoredHosts[pc.i].Name] = today]
    /\ UNCHANGED <<stats, statsServiceVersions, files, today, panicked, last, ops, held, lastServiceVersions, lastUpdatedDay>>
    /\ UNCHANGED convVars
    /\ UNCHANGED auxVars

\* the host answered (p): the rest of statsUpdateHost
UpdateHost(hostname, p, ords, w) ==
    /\ ~panicked
    /\ pc.at = "fetch"
    /\ LET r == statsUpdateHost(stats, statsServiceVersions, files,
                                lastServiceVersions, hostname, pc.reload, p,
                                today, ords, w)
       IN  /\ stats' = r.stats
           /\ statsServiceVersions' = r.versions
           /\ files' = r.files
           /\ lastServiceVersions' = r.lsv
           /\ panicked' = (r.exit = "panic")
           /\ held' = HeldAfter(r.stats, hostname,
                                StatsRow(r.stats, hostname).Stats
                                    /= StatsRow(stats, hostname).Stats)
           /\ last' = [NoOp EXCEPT
                          !.op = "UpdateHost", !.in = p.in, !.ver = p.ver,
                          !.bsecs = p.bsecs, !.exit = r.exit,
                          !.added = r.add.added,
                          !.addedStats = r.add.addedStats,
                          !.diag = r.add.diag, !.changed = r.changed,
                          !.reload = pc.reload,
                          !.old = statsServiceVersions[hostname],
                          !.saved = r.saved, !.pingErr = p.pingErr]
    /\ pc' = AfterHost(pc.i)
    /\ ops' = ops + 1
    /\ UNCHANGED <<today, lastUpdatedDay, updatedDay>>
    /\ UNCHANGED convVars
    /\ UNCHANGED auxVars

MaintUpdate ==
    ops < MaxCycles /\ \E p \in HostPolls(RealMem(ops), today), ords \in CycleOrders, w \in CycleWrites :
        UpdateHost(MonitoredHosts[pc.i].Name, p, ords, w)

MaintDayTick == ops < MaxCycles /\ DayTick

NextMaint == MaintTop \/ MaintWait \/ MaintSkip \/ MaintCall \/ MaintUpdate \/ MaintDayTick

SpecMaint == Init /\ [][NextMaint]_vars

(***************************************************************************)
(* The converter called once on any of the sequences of snapshots.         *)
(***************************************************************************)
InitDelta ==
    /\ InitStore
    /\ absolute \in UNION {{[stats |-> x, bucketSecs |-> b] :
                                x \in Snapshots(b)} : b \in ConvBucketSecs}
    /\ relative = NotConverted
    /\ AuxIdle

Convert ==
    /\ ~relative.done
    /\ relative' = [done |-> TRUE,
                    out |-> ConvertStatsFromAbsoluteToRelative(
                                absolute.stats, absolute.bucketSecs)]
    /\ UNCHANGED <<stats, statsServiceVersions, files, today, panicked, last, ops, held, absolute>>
    /\ UNCHANGED maintVars
    /\ UNCHANGED auxVars

NextDelta == Convert

SpecDelta == InitDelta /\ [][NextDelta]_vars

(***************************************************************************)
(* watcherGetStats called once on a host of version v1 whose instances     *)
(* answer in any of the ways.                                              *)
(***************************************************************************)
InitScrape ==
    /\ InitStore
    /\ ConvIdle
    /\ answers \in {[ver |-> "v1", instances |-> a] : a \in InstanceAnswers}
    /\ scraped = NotScraped
    /\ PingIdle
    /\ LockIdle
    /\ CanaryIdle
    /\ MoreIdle

Scrape ==
    /\ ~scraped.done
    /\ LET r == watcherGetInstanceStats(answers.instances, answers.ver)
       IN  scraped' = [done |-> TRUE, err |-> r.err, stats |-> r.stats]
    /\ UNCHANGED <<storeVars, maintVars, convVars, answers, pingVars, lockVars, canaryVars, moreVars>>

NextScrape == Scrape

SpecScrape == InitScrape /\ [][NextScrape]_vars

(***************************************************************************)
(* watcherGetServiceInstances called on its own, as the maintainer and the *)
(* Slack commands do, for any host of the configuration: the ping fails,   *)
(* or it reports a service version (none when the host reports none).      *)
(***************************************************************************)
PingAnswers ==
    {[pingErr |-> FALSE, ver |-> v] : v \in Versions \cup {""}}
    \cup {[pingErr |-> TRUE, ver |-> ""]}

Ping(hostname, a) ==
    /\ ops < MaxPings
    /\ LET g == watcherGetServiceInstances(lastServiceVersions, hostname,
                                           a.ver, a.pingErr)
       IN  /\ lastServiceVersions' = g.lsv
           /\ pinged' = [done |-> TRUE, hostname |-> hostname,
                         serviceVersion |-> a.ver, pingErr |-> a.pingErr,
                         cached |-> LastVersion(lastServiceVersions, hostname),
                         serviceVersionChanged |-> g.serviceVersionChanged,
                         err |-> g.err]
    /\ ops' = ops + 1
    /\ UNCHANGED <<stats, statsServiceVersions, files, today, panicked, last, held>>
    /\ UNCHANGED <<lastUpdatedDay, pc, updatedDay>>
    /\ UNCHANGED <<convVars, scrapeVars, lockVars, canaryVars, moreVars>>

NextPing ==
    \E i \in DOMAIN MonitoredHosts, a \in PingAnswers :
        Ping(MonitoredHosts[i].Name, a)

SpecPing == Init /\ [][NextPing]_vars

(***************************************************************************)
(* The goroutines that call statsUpdateHost for the enabled host: the      *)
(* maintainer, and the handler of a sheet request, which goes on to        *)
(* statsExtract when the call has returned (src/sheet.go, lines 111-120).  *)
(***************************************************************************)
TickSecs == 30

CycleHost == "prod"

\* the answers of the host to a cycle
CyclePolls == HostPolls(RealMem(0), today)

\* the clock advances
Tick ==
    /\ ~panicked
    /\ now < MaxTicks * TickSecs
    /\ now' = now + TickSecs
    /\ UNCHANGED <<storeVars, maintVars, convVars, scrapeVars, pingVars, canaryVars, moreVars>>
    /\ UNCHANGED <<statsLock, cycle, statsInitCompleted, uploaded>>

\* statsUpdateHost is called: the maintainer passes the reload it has
\* evaluated, the sheet handler none
CycleCall(g, reload) ==
    /\ ~panicked
    /\ cycle[g].at = "idle"
    /\ cycle' = [cycle EXCEPT ![g] = [NoCycle EXCEPT !.at = "lock", !.reload = reload]]
    /\ uploaded' = [uploaded EXCEPT ![g] = FALSE]
    /\ UNCHANGED <<storeVars, maintVars, convVars, scrapeVars, pingVars, canaryVars, moreVars>>
    /\ UNCHANGED <<statsLock, now, statsInitCompleted>>

\* statsLock.Lock() of statsUpdateHost returns
CycleLock(g) ==
    /\ ~panicked
    /\ cycle[g].at = "lock"
    /\ MutexFree(statsLock)
    /\ statsLock' = g
    /\ cycle' = [cycle EXCEPT ![g].at = "fetch"]
    /\ UNCHANGED <<storeVars, maintVars, convVars, scrapeVars, pingVars, canaryVars, moreVars>>
    /\ UNCHANGED <<now, statsInitCompleted, uploaded>>

\* the host answers (p) and the cycle runs up to the statsExtract of a
\* save, or to its return on an error
CycleFetch(g, p, ords) ==
    /\ ~panicked
    /\ cycle[g].at = "fetch"
    /\ LET r == CycleFetched(stats, statsServiceVersions, files,
                             watcherGetStats(lastServiceVersions, CycleHost, p),
                             CycleHost, cycle[g].reload, p, today, ords)
       IN  /\ stats' = r.stats
           /\ statsServiceVersions' = r.versions
           /\ lastServiceVersions' = r.lsv
           /\ panicked' = r.panic
           /\ cycle' = [cycle EXCEPT ![g].at = r.at, ![g].from = r.from,
                                     ![g].ver = p.ver,
                                     ![g].addedStats = r.addedStats]
    /\ UNCHANGED <<files, today, last, ops, held>>
    /\ UNCHANGED <<lastUpdatedDay, pc, updatedDay>>
    /\ UNCHANGED <<convVars, scrapeVars, pingVars, canaryVars, moreVars>>
    /\ UNCHANGED <<statsLock, now, statsInitCompleted, uploaded>>

\* statsUpdateHost returns: the deferred statsLock.Unlock() runs, and the
\* sheet handler goes on to statsExtract(hostname, 0, 0)
CycleReturn(g) ==
    /\ ~panicked
    /\ cycle[g].at = "return"
    /\ statsLock' = NoOwner
    /\ cycle' = [cycle EXCEPT
                    ![g] = IF g = "sheet"
                           THEN [NoCycle EXCEPT !.at = "extract", !.from = "sheet"]
                           ELSE NoCycle]
    /\ UNCHANGED <<storeVars, maintVars, convVars, scrapeVars, pingVars, canaryVars, moreVars>>
    /\ UNCHANGED <<now, statsInitCompleted, uploaded>>

\* statsLock.Lock() of statsExtract returns
ExtractLock(g) ==
    /\ ~panicked
    /\ cycle[g].at = "extract"
    /\ MutexFree(statsLock)
    /\ statsLock' = g
    /\ cycle' = [cycle EXCEPT ![g].at = "extracting"]
    /\ UNCHANGED <<storeVars, maintVars, convVars, scrapeVars, pingVars, canaryVars, moreVars>>
    /\ UNCHANGED <<now, statsInitCompleted, uploaded>>

\* statsExtract returns and its deferred statsLock.Unlock() runs.  The
\* sheet handler renders what it got; uSaveStats writes the file, after
\* the save of line 654 the cycle is at the reload, and after the save of
\* line 675 it uploads the added stats when they are due and returns.
ExtractUnlock(g) ==
    /\ ~panicked
    /\ cycle[g].at = "extracting"
    /\ statsLock' = NoOwner
    /\ files' = IF cycle[g].from = "sheet" THEN files
                ELSE uSaveStats(files, stats, statsServiceVersions, CycleHost,
                                cycle[g].ver, today, TRUE)
    /\ uploaded' = [uploaded EXCEPT
                       ![g] = /\ cycle[g].from = "save"
                              /\ FanOutDue(cycle[g].addedStats, now,
                                           statsInitCompleted)]
    /\ cycle' = [cycle EXCEPT
                    ![g] = IF cycle[g].from = "sheet" THEN NoCycle
                           ELSE IF cycle[g].from = "save"
                           THEN [@ EXCEPT !.at = "return"]
                           ELSE [@ EXCEPT !.at = "reload"]]
    /\ UNCHANGED <<stats, statsServiceVersions, today, panicked, last, ops, held>>
    /\ UNCHANGED <<maintVars, convVars, scrapeVars, pingVars, canaryVars, moreVars>>
    /\ UNCHANGED <<now, statsInitCompleted>>

\* the steps of the goroutine g
Goroutine(g) ==
    \/ \E reload \in (IF g = "sheet" THEN {FALSE} ELSE BOOLEAN) :
           CycleCall(g, reload)
    \/ CycleLock(g)
    \/ \E p \in CyclePolls, ords \in CycleOrders : CycleFetch(g, p, ords)
    \/ CycleReturn(g)
    \/ ExtractLock(g)
    \/ ExtractUnlock(g)

NextLocks == Tick \/ \E g \in Procs : Goroutine(g)

SpecLocks == Init /\ [][NextLocks]_vars

\* the scheduler runs every goroutine that can take a step, and a
\* goroutine that waits in Lock gets the mutex when it is unlocked again
\* and again (sync.Mutex hands the mutex to a starving waiter)
LockFairness(g) ==
    /\ WF_vars(Goroutine(g))
    /\ SF_vars(CycleLock(g))
    /\ SF_vars(ExtractLock(g))

SpecLocksLive == SpecLocks /\ \A g \in Procs : LockFairness(g)

(***************************************************************************)
(* The canary.  Events are delivered one after the other (canaryLock).     *)
(***************************************************************************)
\* the handler takes the event e
Deliver(e) ==
    /\ LET r == inboundWebCanaryHandler(device, canaryLast, e)
       IN  /\ device' = r.device
           /\ canaryLast' = r.last
           /\ delivered' = Append(delivered, r.entry)
    /\ UNCHANGED <<storeVars, maintVars, convVars, scrapeVars, pingVars, lockVars, moreVars>>

StdSN == <<"s", "t", "d", "1">>

NtnSN == <<"n", "t", "n", "1">>

(***************************************************************************)
(* One "_temp.qo" event delivered for a device in any state: without a     *)
(* context or with one, continuous or not, after no event or after the     *)
(* event of S5 (seqNo 7, session "S", captured at 990, received at 1000).  *)
(* The event comes from either serial number, in either session, with a    *)
(* count that follows, skips or restarts, and with latencies on both       *)
(* sides of every threshold.                                               *)
(***************************************************************************)
AlertDevice == "dev:1"

PriorEvent == [sessionID |-> "S", seqNo |-> 7, capturedTime |-> 990, receivedTime |-> 1000, routedTime |-> 1001]

AlertContexts ==
    {EmptyMap}
    \cup {(AlertDevice :> [sn |-> sn, continuous |-> c, warnings |-> 0]) :
              sn \in {StdSN, NtnSN}, c \in BOOLEAN}

AlertLasts == {EmptyMap, (AlertDevice :> PriorEvent)}

ReceivedGaps == {60, 300, 301, 1080, 1500, 1501}

CapturedLatencies == {10, 120, 121, 1200, 1201}

RoutedLatencies == {10, 11, 15}

AlertEvents ==
    {[notefile |-> "_temp.qo", uid |-> AlertDevice, sn |-> sn,
      sessionID |-> sid, body |-> TRUE, why |-> <<>>, count |-> c,
      when |-> 1000 + g - cl, received |-> 1000 + g,
      routed |-> 1000 + g + rl] :
        sn \in {StdSN, NtnSN}, sid \in {"S", "T"}, c \in {1, 8, 9},
        g \in ReceivedGaps, cl \in CapturedLatencies, rl \in RoutedLatencies}

InitAlert ==
    /\ InitStore
    /\ ConvIdle
    /\ ScrapeIdle
    /\ PingIdle
    /\ LockIdle
    /\ device \in AlertContexts
    /\ canaryLast \in AlertLasts
    /\ delivered = <<>>
    /\ MoreIdle

Alert == delivered = <<>> /\ \E e \in AlertEvents : Deliver(e)

NextAlert == Alert

SpecAlert == InitAlert /\ [][NextAlert]_vars

(***************************************************************************)
(* The stream of events of one device: session events and "_temp.qo"       *)
(* events with any count, a minute apart, in either session.               *)
(***************************************************************************)
StreamEvents(k) ==
    {[notefile |-> "_session.qo", uid |-> AlertDevice, sn |-> StdSN,
      sessionID |-> "S", body |-> TRUE, why |-> w, count |-> 0,
      when |-> 0, received |-> 0, routed |-> 0] :
        w \in {<<"continuous">>, <<"periodic">>}}
    \cup {[notefile |-> "_temp.qo", uid |-> AlertDevice, sn |-> StdSN,
           sessionID |-> sid, body |-> TRUE, why |-> <<>>, count |-> c,
           when |-> StreamStart + 60 * k - 10,
           received |-> StreamStart + 60 * k,
           routed |-> StreamStart + 60 * k + 1] :
             sid \in {"S", "T"}, c \in 1..MaxSeq}
    \cup {[notefile |-> "_track.qo", uid |-> AlertDevice, sn |-> StdSN,
           sessionID |-> "S", body |-> TRUE, why |-> <<>>, count |-> 0,
           when |-> 0, received |-> 0, routed |-> 0]}

Stream ==
    /\ Len(delivered) < MaxDeliveries
    /\ \E e \in StreamEvents(Len(delivered) + 1) : Deliver(e)

NextCanary == Stream

SpecCanary == Init /\ [][NextCanary]_vars

(***************************************************************************)
(* The sweep of the canary.  The sweep task wakes up again and again; the  *)
(* webhook handler runs between any two steps of the sweep.  The "copy" of *)
(* the two maps is an assignment of map values, so deviceCopy and lastCopy *)
(* are the live maps themselves.                                           *)
(***************************************************************************)
\* the silence after which a device is warned about
receivedInterval(sn) == IF HasPrefix(sn, Ntn) THEN 20 * 60 ELSE 6 * 60

\* (a sweep that goes on reporting at the tenth warning)
SweepMessage_NoLast(warnings) ==
    IF warnings <= 10 THEN "no routed events received" ELSE ""

\* the message of a sweep for a device warned d.warnings times
SweepMessage(warnings) ==
    IF warnings < 10 THEN "no routed events received"
    ELSE IF warnings = 10 THEN "LAST WARNING before silence!"
    ELSE ""

\* what the sweep did with a device
Swept(uid, silent, before, d, l, msg) ==
    [uid |-> uid, silent |-> silent, before |-> before, d |-> d, l |-> l,
     msg |-> msg, sweep |-> sweep.sweeps, now |-> sweep.now]

\* the sweep task sleeps for a minute between two sweeps
SweepPeriod == 60

\* the sweep task wakes up, instantiates and "copies" the maps under
\* canaryLock and reads the clock
SweepStart ==
    /\ sweep.at = "idle"
    /\ sweep.sweeps < MaxSweeps
    /\ clock' = clock + SweepPeriod
    /\ sweep' = [NotSweeping EXCEPT !.at = "range", !.now = clock + SweepPeriod,
                                    !.keys = DOMAIN device,
                                    !.sweeps = sweep.sweeps + 1,
                                    !.locked = TRUE]
    /\ UNCHANGED <<storeVars, maintVars, convVars, scrapeVars, pingVars, lockVars, canaryVars, swept, lateVars>>

\* the next device of the range loop: its context and last event are read
\* from the maps, canaryLock not held, and the silence is evaluated
SweepRange(uid) ==
    /\ sweep.at = "range"
    /\ uid \in DOMAIN device /\ uid \notin sweep.visited
    /\ LET d == DeviceOf(device, uid)
           l == LastOf(canaryLast, uid)
       IN  IF sweep.now - l.receivedTime >= receivedInterval(d.sn)
           THEN /\ sweep' = [sweep EXCEPT !.at = "warn", !.uid = uid,
                                          !.d = d, !.l = l, !.locked = FALSE]
                /\ swept' = swept
           ELSE /\ sweep' = [sweep EXCEPT !.visited = @ \cup {uid},
                                          !.uid = uid, !.d = d, !.l = l,
                                          !.locked = FALSE]
                /\ swept' = Append(swept, Swept(uid, FALSE, d, d, l, ""))
    /\ UNCHANGED <<storeVars, maintVars, convVars, scrapeVars, pingVars, lockVars, canaryVars, clock, lateVars>>

\* d.warnings++ and the store into deviceCopy, canaryLock not held
SweepWarn ==
    /\ sweep.at = "warn"
    /\ sweep' = [sweep EXCEPT !.at = "write", !.d.warnings = @ + 1,
                              !.locked = FALSE]
    /\ device' = MapPut(device, sweep.uid, sweep'.d)
    /\ UNCHANGED <<storeVars, maintVars, convVars, scrapeVars, pingVars, lockVars, canaryLast, delivered, clock, swept, lateVars>>

\* the write back under canaryLock and the message
SweepWrite ==
    /\ sweep.at = "write"
    /\ device' = MapPut(device, sweep.uid, sweep.d)
    /\ sweep' = [sweep EXCEPT !.at = "range", !.visited = @ \cup {sweep.uid},
                              !.locked = TRUE]
    /\ swept' = Append(swept, Swept(sweep.uid, TRUE,
                                    [sweep.d EXCEPT !.warnings = @ - 1],
                                    sweep.d, sweep.l,
                                    SweepMessage(sweep.d.warnings)))
    /\ UNCHANGED <<storeVars, maintVars, convVars, scrapeVars, pingVars, lockVars, canaryLast, delivered, clock, lateVars>>

\* the range loop is over
SweepReturn ==
    /\ sweep.at = "range"
    /\ sweep.keys \subseteq sweep.visited
    /\ sweep' = [sweep EXCEPT !.at = "idle"]
    /\ UNCHANGED <<storeVars, maintVars, convVars, scrapeVars, pingVars, lockVars, canaryVars, clock, swept, lateVars>>

canarySweepDevices ==
    \/ SweepStart
    \/ \E uid \in DOMAIN device : SweepRange(uid)
    \/ SweepWarn
    \/ SweepWrite
    \/ SweepReturn

\* the standard device opens continuous sessions, the NTN device periodic ones
SessionWhy(sn) == IF sn = StdSN THEN <<"continuous">> ELSE <<"periodic">>

\* the serial number of the device: the one of its last session, and the
\* standard one before its first session
KnownSN ==
    IF AlertDevice \in DOMAIN device THEN device[AlertDevice].sn ELSE StdSN

\* the events the webhook delivers at the time of the clock
SweepEvents ==
    {[notefile |-> "_session.qo", uid |-> AlertDevice, sn |-> sn,
      sessionID |-> "S", body |-> TRUE, why |-> SessionWhy(sn), count |-> 0,
      when |-> 0, received |-> 0, routed |-> 0] :
        sn \in {StdSN, NtnSN}}
    \cup {[notefile |-> "_temp.qo", uid |-> AlertDevice, sn |-> KnownSN,
           sessionID |-> "S", body |-> TRUE, why |-> <<>>, count |-> 1,
           when |-> clock - 10, received |-> clock, routed |-> clock + 1]}

Webhook ==
    /\ Len(delivered) < MaxWebhooks
    /\ \E e \in SweepEvents : Deliver(e)

NextSweep == canarySweepDevices \/ Webhook

SpecSweep == Init /\ [][NextSweep]_vars

(***************************************************************************)
(* The reload of a host step by step, as the store with two mutexes does   *)
(* it: statsUpdateHost holds statsUpdateLock, and of what uLoadStats calls *)
(* only statsVerify takes statsLock.  A reader extracts between any two    *)
(* steps.                                                                  *)
(***************************************************************************)
\* uLoadStats begins: the version of the host is cleared
ReloadClear(hostname, serviceVersion, bucketSecs) ==
    /\ ~panicked
    /\ loading.at = "idle"
    /\ ops < MaxPolls
    /\ statsServiceVersions' = [statsServiceVersions EXCEPT ![hostname] = ""]
    /\ loading' = [at |-> "verify", hostname |-> hostname,
                  serviceVersion |-> serviceVersion,
                  bucketSecs |-> bucketSecs, locked |-> FALSE]
    /\ UNCHANGED <<stats, files, today, panicked, last, ops, held>>
    /\ UNCHANGED <<maintVars, convVars, scrapeVars, pingVars, lockVars, canaryVars, sweepVars, allStats, aggregated, net, watch>>

\* statsVerify, under statsLock
ReloadVerify ==
    /\ loading.at = "verify"
    /\ LET v == uStatsVerify(stats, statsServiceVersions, loading.hostname,
                             loading.serviceVersion, loading.bucketSecs)
       IN  /\ stats' = v.stats
           /\ statsServiceVersions' = v.versions
    /\ loading' = [loading EXCEPT !.at = "today", !.locked = TRUE]
    /\ UNCHANGED <<files, today, panicked, last, ops, held>>
    /\ UNCHANGED <<maintVars, convVars, scrapeVars, pingVars, lockVars, canaryVars, sweepVars, allStats, aggregated, net, watch>>

\* one of the two files is read and added with uStatsAdd
ReloadFile(at, filetime, o) ==
    /\ ~panicked
    /\ loading.at = at
    /\ LET r == LoadFile(stats, loading.hostname,
                         readFileLocally(files, loading.hostname,
                                         loading.serviceVersion, filetime),
                         o[1], o[2])
       IN  /\ stats' = r.stats
           /\ panicked' = (r.exit = "panic")
    /\ loading' = [loading EXCEPT
                     !.at = IF at = "today" THEN "yesterday" ELSE "idle",
                     !.locked = FALSE]
    /\ ops' = IF at = "today" THEN ops ELSE ops + 1
    /\ UNCHANGED <<statsServiceVersions, files, today, last, held>>
    /\ UNCHANGED <<maintVars, convVars, scrapeVars, pingVars, lockVars, canaryVars, sweepVars, allStats, aggregated, net, watch>>

ReloadToday ==
    \E o \in Orders \X Orders : ReloadFile("today", today, o)

ReloadYesterday ==
    \E o \in Orders \X Orders : ReloadFile("yesterday", yesterdayTime(today), o)

ReloadStart ==
    \E h \in Hosts, v \in Versions, b \in BucketSecsSet : ReloadClear(h, v, b)

\* the maintainer polls, saves and reloads; the reader extracts at any time
Maintain == loading.at = "idle" /\ (PollVerify \/ PollAdd \/ FileSave)

NextReload ==
    \/ Maintain
    \/ ReloadStart
    \/ ReloadVerify
    \/ ReloadToday
    \/ ReloadYesterday
    \/ PollExtract

SpecReload == Init /\ [][NextReload]_vars

(***************************************************************************)
(* The mutexes and the network.  Three threads run the functions that take *)
(* a mutex other than statsLock: a Slack command in                        *)
(* watcherGetServiceInstances, the maintainer in statsUpdateHost and the   *)
(* sweep task in canarySweepDevices.  A step locks, unlocks, or performs a *)
(* network call; a call marked optional depends on the data (an error to   *)
(* post, a silent device).                                                 *)
(***************************************************************************)
NetThreads == {"command", "maintainer", "sweep"}

NetLock(what) == [op |-> "lock", what |-> what, optional |-> FALSE]

NetUnlock(what) == [op |-> "unlock", what |-> what, optional |-> FALSE]

NetCall(what, optional) == [op |-> "call", what |-> what, optional |-> optional]

\* watcherGetServiceInstances: the ping and the post of the error, between
\* serviceLock.Lock() and serviceLock.Unlock()
ServiceInstancesSteps ==
    <<NetLock("serviceLock"), NetCall("diagnostic", FALSE),
      NetCall("message", TRUE), NetUnlock("serviceLock")>>

\* canarySweepDevices: the range loop with its posts, between
\* canaryLock.Lock() and canaryLock.Unlock()
SweepSteps ==
    <<NetLock("canaryLock"), NetCall("message", TRUE), NetUnlock("canaryLock")>>

\* statsUpdateHost: watcherGetStats (watcherGetServiceInstances, then the
\* request to every instance), the save with its upload, the metrics,
\* between statsUpdateLock.Lock() and the deferred Unlock
UpdateHostSteps ==
    <<NetLock("statsUpdateLock")>> \o ServiceInstancesSteps
    \o <<NetCall("diagnostic", FALSE), NetCall("upload", FALSE),
         NetCall("metrics", TRUE), NetUnlock("statsUpdateLock")>>

NetSteps(t) ==
    CASE t = "command" -> ServiceInstancesSteps
      [] t = "maintainer" -> UpdateHostSteps
      [] t = "sweep" -> SweepSteps

\* the thread t takes its next step; skip leaves an optional call out
NetStep(t, skip) ==
    /\ net[t].pc < Len(NetSteps(t))
    /\ net[t].pc = 0 => net[t].calls < MaxCalls
    /\ LET s == NetSteps(t)[net[t].pc + 1]
       IN  /\ skip => s.optional
           /\ s.op = "lock" => \A u \in NetThreads : s.what \notin net[u].held
           /\ net' = [net EXCEPT
                  ![t] = [pc |-> net[t].pc + 1,
                          held |-> CASE s.op = "lock" -> net[t].held \cup {s.what}
                                     [] s.op = "unlock" -> net[t].held \ {s.what}
                                     [] OTHER -> net[t].held,
                          call |-> IF s.op = "call" /\ ~skip THEN s.what ELSE "",
                          calls |-> net[t].calls]]
    /\ UNCHANGED <<storeVars, maintVars, convVars, scrapeVars, pingVars, lockVars, canaryVars, sweepVars, allStats, aggregated, loading, watch>>

\* the function returns
NetReturn(t) ==
    /\ net[t].pc = Len(NetSteps(t))
    /\ net' = [net EXCEPT ![t] = [pc |-> 0, held |-> {}, call |-> "",
                                  calls |-> net[t].calls + 1]]
    /\ UNCHANGED <<storeVars, maintVars, convVars, scrapeVars, pingVars, lockVars, canaryVars, sweepVars, allStats, aggregated, loading, watch>>

NextNet ==
    \E t \in NetThreads : (\E skip \in BOOLEAN : NetStep(t, skip)) \/ NetReturn(t)

SpecNet == Init /\ [][NextNet]_vars

(***************************************************************************)
(* The maintainer and the Slack commands (show, activity, request) ask     *)
(* watcherGetServiceInstances about the same hosts.                        *)
(***************************************************************************)
WatchCallers == {"maintainer", "command"}

\* the caller by pings the host, which answers a; the maintainer keeps the
\* result, a command looks at the error only
Polled(by, hostname, a) ==
    /\ ops < MaxPings
    /\ LET g == watcherGetServiceInstances(lastServiceVersions, hostname,
                                           a.ver, a.pingErr)
       IN  /\ lastServiceVersions' = g.lsv
           /\ pinged' = [done |-> TRUE, hostname |-> hostname,
                         serviceVersion |-> a.ver, pingErr |-> a.pingErr,
                         cached |-> LastVersion(lastServiceVersions, hostname),
                         serviceVersionChanged |-> g.serviceVersionChanged,
                         err |-> g.err]
           /\ watch' = [by |-> by,
                        seen |-> IF by = "maintainer" /\ ~g.err
                                 THEN MapPut(watch.seen, hostname, a.ver)
                                 ELSE watch.seen]
    /\ ops' = ops + 1
    /\ UNCHANGED <<stats, statsServiceVersions, files, today, panicked, last, held>>
    /\ UNCHANGED <<lastUpdatedDay, pc, updatedDay>>
    /\ UNCHANGED <<convVars, scrapeVars, lockVars, canaryVars, sweepVars, allStats, aggregated, loading, net>>

NextShow ==
    \E by \in WatchCallers, i \in DOMAIN MonitoredHosts, a \in PingAnswers :
        Polled(by, MonitoredHosts[i].Name, a)

SpecShow == Init /\ [][NextShow]_vars

(***************************************************************************)
(* The aggregation of the series of the service instances of a host.  A    *)
(* bucket of a series carries its time, one uint64 counter (disk reads),   *)
(* one int64 counter (events enqueued) and the reads of its databases by   *)
(* name; the other counters are summed by the same statements.             *)
(***************************************************************************)
\* (buckets told apart by their time, not by their bucket id)
bucketID_Unaligned(SnapshotTaken, bsecs) == SnapshotTaken

\* the id of the bucket of a sample
bucketID(SnapshotTaken, bsecs) == TruncDiv(SnapshotTaken, bsecs)

\* the zero value of AggregatedStat with its maps made
ZeroAggregatedStat ==
    [Time |-> 0, DiskReads |-> 0, EventsReceived |-> 0, DatabaseReads |-> 0,
     Databases |-> EmptyMap]

\* the databases of the sample s added to those of the aggregate
RECURSIVE AddDatabases(_, _, _)
AddDatabases(as, dbs, keys) ==
    IF keys = {} THEN as
    ELSE LET key == CHOOSE k \in keys : TRUE
             v == IF key \in DOMAIN as.Databases THEN as.Databases[key] ELSE 0
         IN  AddDatabases(
                 [as EXCEPT !.DatabaseReads = @ + dbs[key],
                            !.Databases = MapPut(@, key, v + dbs[key])],
                 dbs, keys \ {key})

\* the body of the inner loop: the sample s added to its bucket
AggregateSample(byBucket, s, bsecs) ==
    LET id == bucketID(s.SnapshotTaken, bsecs)
        as == IF id \in DOMAIN byBucket THEN byBucket[id]
              ELSE ZeroAggregatedStat
        summed == [as EXCEPT !.Time = id * bsecs,
                             !.DiskReads = (@ + s.OSDiskRead) % Uint64Mod,
                             !.EventsReceived = @ + s.EventsEnqueued]
    IN  MapPut(byBucket, id, AddDatabases(summed, s.Databases, DOMAIN s.Databases))

RECURSIVE AggregateSeries(_, _, _, _)
AggregateSeries(byBucket, sis, i, bsecs) ==
    IF i > Len(sis) THEN byBucket
    ELSE AggregateSeries(AggregateSample(byBucket, sis[i], bsecs), sis, i + 1, bsecs)

\* the outer loop, over the instances in the order of the map
RECURSIVE AggregateInstances(_, _, _, _)
AggregateInstances(byBucket, all, siids, bsecs) ==
    IF siids = {} THEN byBucket
    ELSE LET siid == CHOOSE x \in siids : TRUE
         IN  AggregateInstances(AggregateSeries(byBucket, all[siid], 1, bsecs),
                                all, siids \ {siid}, bsecs)

\* sort.Sort(statRecency(...)): the most recent Time first
RECURSIVE SortByRecency(_, _)
SortByRecency(byBucket, ids) ==
    IF ids = {} THEN <<>>
    ELSE LET id == CHOOSE x \in ids :
                       \A y \in ids : byBucket[x].Time >= byBucket[y].Time
         IN  <<byBucket[id]>> \o SortByRecency(byBucket, ids \ {id})

statsAggregate(all, bsecs) ==
    IF DOMAIN all = {} THEN <<>>
    ELSE LET byBucket == AggregateInstances(EmptyMap, all, DOMAIN all, bsecs)
         IN  SortByRecency(byBucket, DOMAIN byBucket)

\* the samples: two of them in the bucket of 60, the second one not on the
\* grid, one of them with a disk counter that wraps the sum
AggregateBucketSecs == 60

AggregateSamples ==
    {[SnapshotTaken |-> 60, OSDiskRead |-> 1, EventsEnqueued |-> 0, Databases |-> EmptyMap],
     [SnapshotTaken |-> 90, OSDiskRead |-> Uint64Mod - 1, EventsEnqueued |-> 1, Databases |-> ("notehub" :> 1)],
     [SnapshotTaken |-> 120, OSDiskRead |-> 2, EventsEnqueued |-> 1, Databases |-> ("notehub" :> 2)],
     [SnapshotTaken |-> 180, OSDiskRead |-> 0, EventsEnqueued |-> 2, Databases |-> ("notehub" :> 1) @@ ("notebox" :> 1)]}

AggregateSeriesSet ==
    UNION {[1..n -> AggregateSamples] : n \in 0..MaxSeries}

AggregateInputs ==
    UNION {[ids -> AggregateSeriesSet] : ids \in SUBSET SIIDs}

InitAggregate ==
    /\ InitStore
    /\ ConvIdle
    /\ ScrapeIdle
    /\ PingIdle
    /\ LockIdle
    /\ CanaryIdle
    /\ SweepIdle
    /\ allStats \in AggregateInputs
    /\ aggregated = NotAggregated
    /\ loading = NotReloading
    /\ net = [t \in {"command", "maintainer", "sweep"} |-> NetIdle]
    /\ watch = NotWatching

Aggregate ==
    /\ ~aggregated.done
    /\ aggregated' = [done |-> TRUE,
                      out |-> statsAggregate(allStats, AggregateBucketSecs)]
    /\ UNCHANGED <<storeVars, maintVars, convVars, scrapeVars, pingVars, lockVars, canaryVars, sweepVars, allStats, loading, net, watch>>

NextAggregate == Aggregate

SpecAggregate == InitAggregate /\ [][NextAggregate]_vars

(***************************************************************************)
(* Properties of the grid.                                                 *)
(***************************************************************************)
Grid(st, h) == StatsRow(st, h).Stats

GridSecs(st, h) == StatsRow(st, h).BucketMins * 60

NonEmptyKeys(st, h) == {k \in DOMAIN Grid(st, h) : Len(Grid(st, h)[k]) > 0}

IsReal(b) == b.OSMemTotal /= 0

\* the last operation was an Add or a Reload and the process is running
AfterAddOrReload == last.op \in {"Add", "Reload"} /\ ~panicked

UniformLength(st, h) ==
    \A k1, k2 \in NonEmptyKeys(st, h) :
        Len(Grid(st, h)[k1]) = Len(Grid(st, h)[k2])

OnGrid(st, h) ==
    \A k \in DOMAIN Grid(st, h) : \A i \in DOMAIN Grid(st, h)[k] :
        Grid(st, h)[k][i].SnapshotTaken
            = StatsRow(st, h).Time - (i - 1) * GridSecs(st, h)

\* C1: after every Add and every Reload all non-empty series of a host
\* have the same length
C1_UniformLength ==
    AfterAddOrReload => \A h \in Hosts : UniformLength(stats, h)

\* C2: after every Add and every Reload bucket i of every series carries
\* the time host.time - i*bucketSecs
C2_OnGrid ==
    AfterAddOrReload => \A h \in Hosts : OnGrid(stats, h)

\* the Add that just ran returned (it did not panic)
AddReturned == last'.op = "Add" /\ ~panicked'

\* the incoming map of the Add that just ran
Incoming == last'.in.m

\* the incoming buckets of series k that are real
RealIncoming(k) ==
    IF k \in DOMAIN Incoming
    THEN {Incoming[k][j] : j \in {x \in DOMAIN Incoming[k] :
                                      IsReal(Incoming[k][x])}}
    ELSE {}

\* the slot of the time w in the grid of host h after the step
SlotAfter(h, w) ==
    TruncDiv(StatsRow(stats', h).Time - w, GridSecs(stats', h)) + 1

\* bucket b of series k is, after the step, still at the slot of its time
\* or replaced there by a real incoming bucket with the same time
KeptOrRefreshed(h, k, b) ==
    /\ k \in DOMAIN Grid(stats', h)
    /\ SlotAfter(h, b.SnapshotTaken) \in DOMAIN Grid(stats', h)[k]
    /\ LET c == Grid(stats', h)[k][SlotAfter(h, b.SnapshotTaken)]
       IN  /\ c.SnapshotTaken = b.SnapshotTaken
           /\ c = b \/ c \in RealIncoming(k)

\* C3: Add never replaces a stored real bucket by a placeholder: a real
\* bucket stored before Add is afterwards still stored at the slot of its
\* time, or replaced by a real incoming bucket with the same time
C3_RealKept ==
    [][AddReturned =>
         \A h \in Hosts : \A k \in DOMAIN Grid(stats, h) :
             \A i \in DOMAIN Grid(stats, h)[k] :
                 IsReal(Grid(stats, h)[k][i])
                     => KeptOrRefreshed(h, k, Grid(stats, h)[k][i])]_vars

\* the most recent time of the incoming window: the time of the first
\* bucket of its series
WindowTimes == {Incoming[k][1].SnapshotTaken :
                   k \in {x \in DOMAIN Incoming : Len(Incoming[x]) > 0}}

\* C4: an Add whose window is more recent than host.time extends every
\* stored series at the front by (mostRecent - host.time)/bucketSecs
\* buckets, sets host.time to mostRecent, and moves every stored bucket to
\* its old index plus that count (where the assignment step may then store
\* a real incoming bucket of the same time)
C4_FrontExtend ==
    [][AddReturned =>
         \A h \in Hosts : \A mostRecent \in WindowTimes :
             (WindowTimes = {mostRecent}
              /\ GridSecs(stats, h) /= 0
              /\ mostRecent > StatsRow(stats, h).Time)
             => LET count == IF StatsRow(stats, h).Time = 0 THEN 0
                             ELSE (mostRecent - StatsRow(stats, h).Time)
                                      \div GridSecs(stats, h)
                IN  /\ StatsRow(stats', h).Time = mostRecent
                    /\ \A k \in DOMAIN Grid(stats, h) :
                           /\ k \in DOMAIN Grid(stats', h)
                           /\ Len(Grid(stats', h)[k])
                                  >= Len(Grid(stats, h)[k]) + count
                           /\ \A i \in DOMAIN Grid(stats, h)[k] :
                                  \/ Grid(stats', h)[k][i + count]
                                         = Grid(stats, h)[k][i]
                                  \/ /\ Grid(stats', h)[k][i + count]
                                            \in RealIncoming(k)
                                     /\ Grid(stats', h)[k][i + count]
                                            .SnapshotTaken
                                        = Grid(stats, h)[k][i].SnapshotTaken
            ]_vars

\* the series of sis contains the bucket b
Holds(sis, b) == \E i \in DOMAIN sis : sis[i] = b

\* C5: when the incoming map brings a service instance that has no stored
\* series while other series hold buckets, the new series is back-filled:
\* after Add all series have the same length, the new series covers the
\* incoming window, and the real incoming buckets are stored
C5_NewSeriesBackfilled ==
    [][AddReturned =>
         \A h \in Hosts : \A k \in DOMAIN Incoming :
             (/\ GridSecs(stats, h) /= 0
              /\ k \notin DOMAIN Grid(stats, h)
              /\ NonEmptyKeys(stats, h) /= {})
             => /\ UniformLength(stats', h)
                /\ k \in DOMAIN Grid(stats', h)
                /\ Len(Grid(stats', h)[k]) >= Len(Incoming[k])
                /\ \A b \in RealIncoming(k) : Holds(Grid(stats', h)[k], b)
            ]_vars

\* C6: after every Add every stored series holds at most
\* 48*60*60/bucketSecs buckets
C6_RollingWindow ==
    (last.op = "Add" /\ ~panicked)
        => \A h \in Hosts : \A k \in DOMAIN Grid(stats, h) :
               Len(Grid(stats, h)[k]) * GridSecs(stats, h)
                   <= RollingWindowSecs

\* two series of the map m differ in length or in the time of bucket 0
NonUniform(m) ==
    \E k1, k2 \in DOMAIN m :
        \/ Len(m[k1]) /= Len(m[k2])
        \/ /\ Len(m[k1]) > 0
           /\ Len(m[k2]) > 0
           /\ m[k1][1].SnapshotTaken /= m[k2][1].SnapshotTaken

\* the last operation was an Add that got past the checks of the nil map
\* and of the bucket width
AddLooked == last.op = "Add" /\ last.exit \notin {"nil", "invalid"}

\* C7: Add fails with InputNonUniform, storing no bucket and returning
\* addedCount = 0, whenever two incoming series differ in length or in the
\* time of bucket 0
C7_NonUniformRejected ==
    (AddLooked /\ NonUniform(last.in.m))
        => /\ last.exit = "nonuniform"
           /\ last.added = 0
           /\ DOMAIN last.addedStats = {}

\* C8: an Add that is given non-uniform input leaves the stored grid of
\* the host exactly as it was: the same series, contents and host.time
C8_NonUniformNoChange ==
    [][(AddReturned /\ last'.exit \notin {"nil", "invalid"}
        /\ NonUniform(Incoming))
       => stats' = stats]_vars

\* C9: Add never panics, whatever the incoming map and the stored grid
C9_NoPanic == ~panicked

\* C10: Add on a host without a recorded bucket width returns
\* addedCount = 0 and no added buckets and leaves the grid unchanged
C10_NoWidthRejected ==
    [][(last'.op = "Add"
        /\ \E h \in Hosts : StatsRow(stats, h).BucketMins = 0)
       => /\ last'.added = 0
          /\ DOMAIN last'.addedStats = {}
          /\ stats' = stats
          /\ ~panicked']_vars

\* an Add was rejected for a host row that records no bucket width
C10_Witness ==
    /\ last.op = "Add"
    /\ last.exit = "invalid"
    /\ ~last.in.nil
    /\ DOMAIN last.in.m /= {}
    /\ \E h \in DOMAIN stats : stats[h].BucketMins = 0

\* the empty row Verify stores for host h
FreshRow(h) ==
    [Name |-> h, Addr |-> hostaddr, Time |-> 0,
     BucketMins |-> last'.bsecs \div 60, StatsNil |-> TRUE, Stats |-> EmptyMap]

\* C11: Verify with a service version that differs from the recorded one
\* replaces the host's grid by an empty grid with bucketMins =
\* bucketSecs/60 and records the version; with the recorded version it
\* changes nothing, even if bucketSecs differs
C11_VerifyResets ==
    [][last'.op = "Verify" =>
         \A h \in Hosts :
             IF last'.ver /= statsServiceVersions[h]
             THEN /\ stats' = MapPut(stats, h, FreshRow(h))
                  /\ statsServiceVersions'
                         = [statsServiceVersions EXCEPT ![h] = last'.ver]
             ELSE /\ stats' = stats
                  /\ statsServiceVersions' = statsServiceVersions]_vars

\* a Verify with another version has just cleared a grid that held series
C11_Witness ==
    /\ last.op = "Verify"
    /\ last.exit = "reset"
    /\ last.had > 0
    /\ \E h \in Hosts : /\ statsServiceVersions[h] = last.ver
                        /\ DOMAIN Grid(stats, h) = {}

\* the buckets of sis with beginTime <= when < beginTime + duration, in
\* stored order
InSlice(sis, beginTime, duration) ==
    SelectSeq(sis, LAMBDA b : /\ beginTime <= b.SnapshotTaken
                              /\ b.SnapshotTaken < beginTime + duration)

\* the times of all buckets of the map m
WhensOf(m) ==
    UNION {{m[k][i].SnapshotTaken : i \in DOMAIN m[k]} : k \in DOMAIN m}

\* C12: Extract with duration > 0 returns for each SIID exactly the stored
\* buckets with beginTime <= when < beginTime + duration in stored order,
\* omits the series without such a bucket and sets Time to the largest
\* returned when; with duration = 0 it returns the whole grid; exists is
\* false when the host is not loaded
C12_ExtractSlice ==
    last.op = "Extract" =>
        LET h == held.host
            grid == Grid(stats, h)
            slice(k) == InSlice(grid[k], held.begin, held.dur)
        IN  IF ~uStatsLoaded(stats, statsServiceVersions, h)
            THEN ~held.exists
            ELSE /\ held.exists
                 /\ IF held.dur = 0
                    THEN held.hs = stats[h]
                    ELSE /\ DOMAIN held.hs.Stats
                                = {k \in DOMAIN grid : Len(slice(k)) > 0}
                         /\ \A k \in DOMAIN held.hs.Stats :
                                held.hs.Stats[k] = slice(k)
                         /\ held.hs.Time
                                = MaxOf({0} \cup WhensOf(held.hs.Stats))

\* C13: the HostStats returned by Extract is an owned snapshot: an Add, a
\* Verify or a Reload that runs after Extract has returned changes neither
\* its series map nor any of its series
C13_OwnedSnapshot ==
    [][(held.valid /\ last'.op \in {"Add", "Verify", "Reload"})
       => held'.hs = held.hs]_vars

\* the grid of host h holds only real buckets, lies on its time grid and
\* spans today and yesterday: its first bucket is in today's day slice and
\* its last one in yesterday's
SpansTwoDays(h) ==
    /\ NonEmptyKeys(stats, h) = DOMAIN Grid(stats, h)
    /\ DOMAIN Grid(stats, h) /= {}
    /\ UniformLength(stats, h)
    /\ OnGrid(stats, h)
    /\ \A k \in DOMAIN Grid(stats, h) :
           /\ \A i \in DOMAIN Grid(stats, h)[k] : IsReal(Grid(stats, h)[k][i])
           /\ Grid(stats, h)[k][1].SnapshotTaken >= today
           /\ Grid(stats, h)[k][1].SnapshotTaken < today + secs1Day
           /\ Grid(stats, h)[k][Len(Grid(stats, h)[k])].SnapshotTaken
                  >= yesterdayTime(today)
           /\ Grid(stats, h)[k][Len(Grid(stats, h)[k])].SnapshotTaken < today

\* C14: for a grid H of real buckets that spans today and yesterday, Save
\* followed by Reload under the host's version and bucket width yields a
\* grid equal to H
C14_SaveReload ==
    [][\A h \in Hosts :
           (/\ last.op = "Save"
            /\ last.exit = "written"
            /\ last.ver = statsServiceVersions[h]
            /\ SpansTwoDays(h)
            /\ last'.op = "Reload"
            /\ last'.ver = statsServiceVersions[h]
            /\ last'.bsecs = GridSecs(stats, h))
           => /\ ~panicked'
              /\ StatsRow(stats', h).Time = StatsRow(stats, h).Time
              /\ Grid(stats', h) = Grid(stats, h)]_vars

(***************************************************************************)
(* The change of the service version.                                      *)
(***************************************************************************)
\* the last step was a cycle of statsUpdateHost that found the version
\* changed, for a host whose grid holds the series scraped under another
\* version, wrote a file before the reload and returned
ChangeHandled(h) ==
    /\ SiidOf(statsServiceVersions[h]) \in DOMAIN Grid(stats, h)
    /\ last'.op = "UpdateHost"
    /\ last'.exit = "done"
    /\ last'.changed
    /\ last'.old \notin {"", last'.ver}
    /\ last'.saved /= <<>>

\* C15: when a poll reports version V2 for a host whose grid was built
\* under V1, the file written before the grid is cleared is named for V1,
\* and no file named for V2 holds a series scraped under V1.
C15_SavedUnderOldVersion ==
    [][\A h \in Hosts :
           ChangeHandled(h)
           => /\ last'.saved = statsFilename(h, last'.old, today)
              /\ \A f \in DOMAIN files' :
                     (f[1] = h /\ f[2] = last'.ver)
                     => SiidOf(last'.old) \notin DOMAIN files'[f].Stats]_vars

\* the series of the files of today and yesterday that are named for
\* version v
SeriesOnFile(fs, h, v) ==
    UNION {DOMAIN fs[f].Stats :
              f \in DOMAIN fs \cap {statsFilename(h, v, today),
                                    statsFilename(h, v, yesterdayTime(today))}}

\* C16: after the cycle that handles a version change V1 to V2, every
\* series of the host's grid comes from the V2 files as they were before
\* the cycle or from the V2 samples of this poll; none was scraped under V1.
C16_NoOldSeries ==
    [][\A h \in Hosts :
           ChangeHandled(h)
           => /\ DOMAIN Grid(stats', h)
                     \subseteq SeriesOnFile(files, h, last'.ver)
                                   \cup DOMAIN last'.in.m
              /\ SiidOf(last'.old) \notin DOMAIN Grid(stats', h)]_vars

(***************************************************************************)
(* The reload on the day boundary.                                         *)
(***************************************************************************)
\* statsUpdateHost is being called for the enabled host at index i
CallOf(i) == pc.at = "hosts" /\ pc.i = i /\ pc'.at = "fetch"

\* C17: when the UTC day has rolled over since the previous maintenance
\* iteration called statsUpdateHost for an enabled host, the call of this
\* iteration for that host has reload set, whether the day rolled over
\* during the wait or while the previous iteration was updating the host.
C17_ReloadAfterRollover ==
    [][\A i \in DOMAIN MonitoredHosts :
           (/\ CallOf(i)
            /\ updatedDay[MonitoredHosts[i].Name] \notin {0, today})
           => pc'.reload]_vars

(***************************************************************************)
(* The delta converter.                                                    *)
(***************************************************************************)
\* descending cumulative snapshots: most recent first, and no cumulative
\* counter below its value in the snapshot taken before
Cumulative(s) ==
    \A i \in 1..(Len(s) - 1) :
        /\ s[i].SnapshotTaken > s[i + 1].SnapshotTaken
        /\ s[i].OSDiskRead >= s[i + 1].OSDiskRead
        /\ s[i].OSDiskWrite >= s[i + 1].OSDiskWrite
        /\ s[i].EventsEnqueued >= s[i + 1].EventsEnqueued
        /\ s[i].EventsRouted >= s[i + 1].EventsRouted

\* the count of key k in the map m, zero when the key is missing
CountOr0(m, k) == IF k \in DOMAIN m THEN m[k] ELSE 0

\* the reads and writes of database k in the map m
DatabaseOr0(m, k) ==
    IF k \in DOMAIN m THEN m[k]
    ELSE [Reads |-> 0, ReadMs |-> 0, Writes |-> 0, WriteMs |-> 0]

\* every plain cumulative counter of the output sample o is the difference
\* of the input snapshots cur and prev
PlainDeltas(o, cur, prev) ==
    /\ o.OSDiskRead = cur.OSDiskRead - prev.OSDiskRead
    /\ o.OSDiskWrite = cur.OSDiskWrite - prev.OSDiskWrite
    /\ o.EventsEnqueued = cur.EventsEnqueued - prev.EventsEnqueued
    /\ o.EventsRouted = cur.EventsRouted - prev.EventsRouted
    /\ DOMAIN o.Databases = DOMAIN cur.Databases
    /\ \A k \in DOMAIN cur.Databases :
           /\ o.Databases[k].Reads
                  = cur.Databases[k].Reads - DatabaseOr0(prev.Databases, k).Reads
           /\ o.Databases[k].Writes
                  = cur.Databases[k].Writes - DatabaseOr0(prev.Databases, k).Writes
    /\ DOMAIN o.API = DOMAIN cur.API
    /\ \A k \in DOMAIN cur.API : o.API[k] = cur.API[k] - CountOr0(prev.API, k)
    /\ DOMAIN o.Fatals = DOMAIN cur.Fatals
    /\ \A k \in DOMAIN cur.Fatals :
           o.Fatals[k] = cur.Fatals[k] - CountOr0(prev.Fatals, k)

\* N >= 2 cumulative snapshots give N-1 samples of plain differences, each
\* with its time snapped to the grid
DeltasOfCumulative ==
    (relative.done /\ Len(absolute.stats) >= 2 /\ Cumulative(absolute.stats))
    => /\ Len(relative.out) = Len(absolute.stats) - 1
       /\ \A i \in 1..(Len(absolute.stats) - 1) :
              /\ PlainDeltas(relative.out[i], absolute.stats[i],
                             absolute.stats[i + 1])
              /\ relative.out[i].SnapshotTaken
                     = (absolute.stats[i].SnapshotTaken
                            \div absolute.bucketSecs) * absolute.bucketSecs

\* no snapshot gives no sample
EmptyGivesEmpty ==
    (relative.done /\ Len(absolute.stats) = 0) => relative.out = <<>>

\* C18: the converter turns N >= 2 descending cumulative snapshots into
\* exactly N-1 samples whose plain counters are s[i].c - s[i+1].c of the
\* input and whose time is floored to a multiple of bucketSecs, and it
\* returns an empty output for N = 0.
C18_PlainDeltas == DeltasOfCumulative /\ EmptyGivesEmpty

\* every net counter of the output is the difference when the counter did
\* not go down and zero when it did
NetDeltaOf(cur, prev) == IF cur >= prev THEN cur - prev ELSE 0

\* C19: for OSNetReceived and OSNetSent the delta of sample i is
\* s[i] - s[i+1] when s[i] >= s[i+1] and 0 when s[i+1] > s[i]; it never
\* wraps around the unsigned range.
C19_NetNeverWraps ==
    (relative.done /\ Len(absolute.stats) >= 2)
    => \A i \in 1..(Len(absolute.stats) - 1) :
           /\ relative.out[i].OSNetReceived
                  = NetDeltaOf(absolute.stats[i].OSNetReceived,
                               absolute.stats[i + 1].OSNetReceived)
           /\ relative.out[i].OSNetSent
                  = NetDeltaOf(absolute.stats[i].OSNetSent,
                               absolute.stats[i + 1].OSNetSent)

\* three snapshots whose OSNetReceived goes up and then down, most recent
\* first (a counter that was reset), converted to the deltas 0 and 1
C19_Witness ==
    /\ relative.done
    /\ Len(absolute.stats) = 3
    /\ absolute.stats[1].OSNetReceived = 0
    /\ absolute.stats[2].OSNetReceived = 2
    /\ absolute.stats[3].OSNetReceived = 1
    /\ relative.out[1].OSNetReceived = 0
    /\ relative.out[2].OSNetReceived = 1

\* C20: in every sample the converter makes of two snapshots, for each of
\* the four handler kinds, activated is s[i].activated - s[i+1].activated
\* and deactivated is s[i].activated - s[i].deactivated of the input.
C20_HandlerCounts ==
    (relative.done /\ Len(absolute.stats) >= 2)
    => \A i \in 1..(Len(absolute.stats) - 1), k \in HandlerKinds :
           /\ relative.out[i].Activated[k]
                  = absolute.stats[i].Activated[k]
                        - absolute.stats[i + 1].Activated[k]
           /\ relative.out[i].Deactivated[k]
                  = absolute.stats[i].Activated[k]
                        - absolute.stats[i].Deactivated[k]

\* a converted sample with new activations, whose count of active handlers
\* differs from the activations and from the cumulative deactivations
C20_Witness ==
    /\ relative.done
    /\ Len(absolute.stats) >= 2
    /\ \E k \in HandlerKinds :
           /\ relative.out[1].Activated[k] > 0
           /\ relative.out[1].Deactivated[k] > 0
           /\ relative.out[1].Deactivated[k] /= relative.out[1].Activated[k]
           /\ relative.out[1].Deactivated[k] /= absolute.stats[1].Deactivated[k]

(***************************************************************************)
(* The scrape of the service instances.                                    *)
(***************************************************************************)
\* the instances that answered with the version v
AnsweredWith(v) ==
    {i \in DOMAIN answers.instances : answers.instances[i].ver = v}

\* every instance answered the request, and one of them with a version
\* that is not the host's
OneMismatch ==
    /\ \A i \in DOMAIN answers.instances : ~answers.instances[i].infoErr
    /\ \E i \in DOMAIN answers.instances :
           answers.instances[i].ver /= answers.ver

\* C21: a service instance whose version is not the host's is skipped and
\* nothing else: watcherGetStats returns a nil error and the series of the
\* instances that answered with the host's version and a full hour,
\* wherever the mismatching instance stands in the order.
C21_MismatchIsolated ==
    (scraped.done /\ OneMismatch)
    => /\ scraped.err = ""
       /\ DOMAIN scraped.stats
              = {answers.instances[i].siid :
                     i \in {j \in AnsweredWith(answers.ver) :
                               Len(answers.instances[j].lb) >= 3}}

(***************************************************************************)
(* The cache of the service versions.                                      *)
(***************************************************************************)
\* C22: watcherGetServiceInstances reports serviceVersionChanged exactly
\* when the ping succeeded and the version it reports differs from the
\* non-empty version cached for the host (so not on the first contact, not
\* on the same version and not on a failed ping), and after reporting a
\* change the cache holds the new version.
C22_VersionChanged ==
    pinged.done
    => /\ pinged.serviceVersionChanged
              <=> (/\ ~pinged.pingErr
                   /\ pinged.cached /= ""
                   /\ pinged.serviceVersion /= pinged.cached)
       /\ pinged.serviceVersionChanged
              => LastVersion(lastServiceVersions, pinged.hostname)
                     = pinged.serviceVersion

\* a change from v1 to v2 was reported and cached
C22_Witness ==
    /\ pinged.done
    /\ pinged.serviceVersionChanged
    /\ pinged.cached = "v1"
    /\ pinged.serviceVersion = "v2"
    /\ LastVersion(lastServiceVersions, pinged.hostname) = "v2"

(***************************************************************************)
(* The failed ping.                                                        *)
(***************************************************************************)
\* the step is a cycle of statsUpdateHost whose ping of the host failed
PingFailed ==
    /\ pc.at = "fetch"
    /\ pc'.at /= "fetch"
    /\ last'.op = "UpdateHost"
    /\ last'.pingErr

\* C23: when the ping of the host fails, statsUpdateHost returns on the
\* error of watcherGetStats: nothing is verified, added, reloaded or
\* saved, and the grid, the service version and the files are as before,
\* on every poll, the first of a host included.
C23_FailedPingSkipsCycle ==
    [][PingFailed
       => /\ last'.exit = "err"
          /\ UNCHANGED <<stats, statsServiceVersions, files>>]_vars

(***************************************************************************)
(* The cycle under the mutex.                                              *)
(***************************************************************************)
\* the goroutine g is inside statsUpdateHost, past its Lock
InCycle(g) ==
    \/ cycle[g].at \in {"fetch", "return", "reload"}
    \/ cycle[g].at \in {"extract", "extracting"} /\ cycle[g].from /= "sheet"

\* the cycle of g has added stats that are due for the upload and is at
\* the save of line 675
UploadDue(g) ==
    /\ InCycle(g)
    /\ cycle[g].from = "save"
    /\ FanOutDue(cycle[g].addedStats, now, statsInitCompleted)

\* C24: a cycle of statsUpdateHost calls datadogUploadStats exactly when
\* its uStatsAdd returned a non-empty addedStats and more than 60 seconds
\* have passed since statsInit: an upload happens only then, so never in
\* the first 60 seconds, and a cycle for which it is due gets to it.
C24_UploadWhenDue ==
    /\ [][\A g \in Procs :
              (uploaded'[g] /\ ~uploaded[g])
              => FanOutDue(cycle[g].addedStats, now, statsInitCompleted)]_vars
    /\ \A g \in Procs : (UploadDue(g) /\ ~panicked) ~> uploaded[g]

\* C26: at most one goroutine is inside statsUpdateHost at any time, be it
\* the maintainer or the handler of a sheet request.
C26_OneCycle == Cardinality({g \in Procs : InCycle(g)}) <= 1

\* the maintainer is in its cycle while the sheet handler waits in Lock
C26_Witness ==
    /\ InCycle("maintainer")
    /\ cycle["sheet"].at = "lock"
    /\ statsLock = "maintainer"

\* C27: every call of statsUpdateHost returns and has then released the
\* mutex, and the statsExtract of its save never waits for a mutex that
\* the call itself holds.
C27_CallReturns ==
    /\ [](\A g \in Procs : ~(cycle[g].at = "extract" /\ statsLock = g))
    /\ \A g \in Procs :
           (cycle[g].at = "lock")
               ~> (panicked \/ (~InCycle(g) /\ statsLock /= g))

(***************************************************************************)
(* The two slices of a save.                                               *)
(***************************************************************************)
\* C25: a Save of a host whose grid spans today and yesterday writes the
\* slice of today and the slice of yesterday to the local files, whatever
\* becomes of the uploads, and leaves the grid as it is.
C25_BothSlices ==
    [][\A h \in Hosts :
           (/\ SpansTwoDays(h)
            /\ ops' = ops + 1
            /\ last'.op = "Save"
            /\ last'.exit = "written"
            /\ last'.ver = statsServiceVersions[h])
           => /\ statsFilename(h, last'.ver, today) \in DOMAIN files'
              /\ statsFilename(h, last'.ver, yesterdayTime(today))
                     \in DOMAIN files'
              /\ stats' = stats]_vars

(***************************************************************************)
(* The canary rules.  R1 to R5 are the conditions of the rules for a       *)
(* delivery x of delivered, against the last event x.l of its device.      *)
(***************************************************************************)
IsNtn(sn) == Len(sn) >= 3 /\ sn[1] = "n" /\ sn[2] = "t" /\ sn[3] = "n"

Tcap(sn) == IF IsNtn(sn) THEN 1200 ELSE 120

Trcv(sn) == IF IsNtn(sn) THEN 1500 ELSE 300

\* the delivery x is a "_temp.qo" of a device that has a context
Evaluated(x) == x.e.notefile = "_temp.qo" /\ x.present

R1(x) == x.d.continuous /\ x.e.sessionID /= x.l.sessionID

R2(x) == x.e.count /= x.l.seqNo + 1

R3(x) == x.e.received - x.e.when > Tcap(x.e.sn)

R4(x) == x.e.routed - x.e.received > 10

R5(x) == x.e.received - x.l.receivedTime > Trcv(x.e.sn)

\* the rule of the alert of x, "" when it sent none
RuleOf(x) == IF x.alerts = <<>> THEN "" ELSE x.alerts[1].rule

FirstRule(x) ==
    IF R1(x) THEN "session" ELSE IF R2(x) THEN "sequence"
    ELSE IF R3(x) THEN "captured" ELSE IF R4(x) THEN "routed"
    ELSE IF R5(x) THEN "received" ELSE ""

\* C28: a "_temp.qo" delivery sends at most one alert, that of the first
\* of the rules R1, R2, R3, R4, R5 whose condition holds against the last
\* event of the device, and none when no condition holds.
C28_OneAlertByPriority ==
    \A i \in DOMAIN delivered :
        Evaluated(delivered[i])
        => /\ Len(delivered[i].alerts) <= 1
           /\ RuleOf(delivered[i]) = FirstRule(delivered[i])

\* S5: seqNo 9 after 7, routed 15 seconds after it was received: the one
\* alert is "sequence out of order (expected 8 but received 9)"
C28_Witness ==
    /\ Len(delivered) = 1
    /\ Evaluated(delivered[1])
    /\ ~delivered[1].d.continuous
    /\ delivered[1].l = PriorEvent
    /\ delivered[1].e.count = 9
    /\ delivered[1].e.when = 1050
    /\ delivered[1].e.received = 1060
    /\ delivered[1].e.routed = 1075
    /\ delivered[1].alerts = <<Errstr("sequence", 8, 9)>>

\* the "_temp.qo" deliveries before the delivery j
TempsBefore(j) == {i \in 1..(j - 1) : delivered[i].e.notefile = "_temp.qo"}

\* the count of the "_temp.qo" before the delivery j, 0 when j is the first
SeqNoBefore(j) ==
    IF TempsBefore(j) = {} THEN 0
    ELSE delivered[MaxOf(TempsBefore(j))].e.count

\* C29: in the stream of "_temp.qo" deliveries of a device (within one
\* session, so that R1 is out of the way), a delivery whose seqNo is one
\* more than that of the delivery before it sends no R2 alert, and a
\* delivery after a gap sends the R2 alert with expected = the seqNo before
\* the gap + 1; the deliveries that follow the gap in order send none.
C29_OneAlertPerGap ==
    \A j \in DOMAIN delivered :
        (Evaluated(delivered[j]) /\ ~R1(delivered[j]))
        => IF delivered[j].e.count = SeqNoBefore(j) + 1
           THEN RuleOf(delivered[j]) /= "sequence"
           ELSE delivered[j].alerts
                    = <<Errstr("sequence", SeqNoBefore(j) + 1,
                               delivered[j].e.count)>>

\* the stream 1, 3, 4 of a device with a context: the one R2 alert is that
\* of the delivery of 3
C29_Witness ==
    /\ Len(delivered) = 4
    /\ delivered[1].e.notefile = "_session.qo"
    /\ \A j \in 2..4 : Evaluated(delivered[j]) /\ ~R1(delivered[j])
    /\ <<delivered[2].e.count, delivered[3].e.count, delivered[4].e.count>>
           = <<1, 3, 4>>
    /\ RuleOf(delivered[2]) /= "sequence"
    /\ delivered[3].alerts = <<Errstr("sequence", 2, 3)>>
    /\ RuleOf(delivered[4]) /= "sequence"

\* C30: the thresholds follow the serial number of the event.  With R1 and
\* R2 out of the way, R3 fires above 1200 s from capture to receipt for a
\* serial number that starts with "ntn" and above 120 s for any other, R5
\* above 1500 s between two receipts for "ntn" and above 300 s for any
\* other, and R4 above 10 s of routing for both.
C30_Thresholds ==
    \A i \in DOMAIN delivered :
        (Evaluated(delivered[i]) /\ ~R1(delivered[i]) /\ ~R2(delivered[i]))
        => LET x == delivered[i]
               late == x.e.received - x.e.when
                           > (IF IsNtn(x.e.sn) THEN 1200 ELSE 120)
               slow == x.e.routed - x.e.received > 10
               gap == x.e.received - x.l.receivedTime
                          > (IF IsNtn(x.e.sn) THEN 1500 ELSE 300)
           IN  /\ RuleOf(x) = "captured" <=> late
               /\ RuleOf(x) = "routed" <=> (~late /\ slow)
               /\ RuleOf(x) = "received" <=> (~late /\ ~slow /\ gap)

\* 18 minutes after the event before it, an event of an "ntn" device
\* sends no alert
C30_Witness ==
    /\ Len(delivered) = 1
    /\ Evaluated(delivered[1])
    /\ IsNtn(delivered[1].e.sn)
    /\ delivered[1].l = PriorEvent
    /\ delivered[1].e.received - delivered[1].l.receivedTime = 18 * 60
    /\ delivered[1].e.count = 8
    /\ delivered[1].alerts = <<>>

(***************************************************************************)
(* The session events.                                                     *)
(***************************************************************************)
\* C32: after a "_session.qo" delivery the context of the device has
\* continuous = (body.why contains "continuous") and the serial number of
\* the event, the first "_session.qo" of the device included.
C32_SessionRecorded ==
    \A i \in DOMAIN delivered :
        (delivered[i].e.notefile = "_session.qo" /\ delivered[i].e.body)
        => /\ delivered[i].d.continuous
                  = Contains(delivered[i].e.why, "continuous")
           /\ delivered[i].d.sn = delivered[i].e.sn
           /\ i = Len(delivered) => device[delivered[i].e.uid] = delivered[i].d

(***************************************************************************)
(* The sweep.                                                              *)
(***************************************************************************)
\* the silence the sweep tolerates: 6 minutes, 20 minutes for NTN
Tsweep(sn) == IF IsNtn(sn) THEN 1200 ELSE 360

\* the device was silent at each of its first k sweeps
SilentSince(k) == \A j \in 1..k : swept[j].silent

Escalation(k) ==
    IF k <= 9 THEN "no routed events received"
    ELSE IF k = 10 THEN "LAST WARNING before silence!"
    ELSE ""

\* C31: a device is silent at a sweep when now - last.receivedTime >=
\* Tsweep; a device that stays silent gets "no routed events received" at
\* each of its first 9 sweeps, "LAST WARNING before silence!" at the 10th
\* and nothing at any later sweep; a sweep of a device below the threshold
\* sends nothing and leaves its warnings count as it was.
C31_SweepEscalation ==
    \A k \in DOMAIN swept :
        /\ swept[k].silent
               = (swept[k].now - swept[k].l.receivedTime
                      >= Tsweep(swept[k].before.sn))
        /\ SilentSince(k) => swept[k].msg = Escalation(k)
        /\ ~swept[k].silent
               => /\ swept[k].msg = ""
                  /\ swept[k].d.warnings = swept[k].before.warnings
                  /\ (k = Len(swept) /\ sweep.at = "range"
                          /\ sweep.uid \in sweep.visited
                          /\ swept[k].uid \in DOMAIN device)
                         => device[swept[k].uid].warnings
                                = swept[k].before.warnings

\* eleven sweeps of a silent device, the last one without a message, and
\* then a sweep that finds the device below the threshold
C31_Witness ==
    /\ Len(swept) >= 12
    /\ SilentSince(11)
    /\ swept[10].msg = "LAST WARNING before silence!"
    /\ swept[11].msg = ""
    /\ ~swept[12].silent

\* the sweep touches the maps with canaryLock held
SweepLocked == sweep' /= sweep => sweep'.locked

\* a step of the sweep that changes the context of a device adds one to
\* its warnings and changes nothing else
SweepCountsOnly ==
    (sweep' /= sweep /\ device' /= device)
    => device' = [device EXCEPT ![sweep'.uid].warnings = @ + 1]

\* C36: canarySweepDevices reads and iterates the device and last maps
\* only with canaryLock held, and what it writes back changes the warnings
\* count only: a continuous or sn update made by the webhook handler while
\* the sweep evaluates the device stays.
C36_SweepIsolated == [][SweepLocked /\ SweepCountsOnly]_vars

\* the last device the sweep evaluated
LastSwept == swept'[Len(swept')]

IsTemp(i) == delivered[i].e.notefile = "_temp.qo"

IsSession(i) == delivered[i].e.notefile = "_session.qo"

\* C40: only a "_session.qo" delivery creates the context of a device; a
\* "_temp.qo" of a device without a context sends no alert and stores its
\* sample; the sweep visits no device without a context; the first
\* "_temp.qo" of a device with a context is compared with the all-zero
\* sample (seqNo 0, receivedTime 0, empty sessionID).
C40_KnownDevicesOnly ==
    /\ \A uid \in DOMAIN device :
           \E i \in DOMAIN delivered :
               IsSession(i) /\ delivered[i].e.uid = uid
    /\ \A k \in DOMAIN swept :
           \E i \in DOMAIN delivered :
               IsSession(i) /\ delivered[i].e.uid = swept[k].uid
    /\ \A i \in DOMAIN delivered :
           IsTemp(i) =>
               /\ delivered[i].present
                      = \E j \in 1..(i - 1) :
                            IsSession(j)
                                /\ delivered[j].e.uid = delivered[i].e.uid
               /\ ~delivered[i].present => delivered[i].alerts = <<>>
               /\ i = Len(delivered)
                      => canaryLast[delivered[i].e.uid]
                             = LatenciesOf(delivered[i].e)
               /\ (delivered[i].present /\ \A j \in 1..(i - 1) : ~IsTemp(j))
                      => /\ delivered[i].l = ZeroLastEvent
                         /\ delivered[i].alerts
                                = LET a == CanaryAlert(delivered[i].d,
                                                       ZeroLastEvent,
                                                       LatenciesOf(delivered[i].e))
                                  IN  IF a.rule = "" THEN <<>> ELSE <<a>>

\* a "_temp.qo" of a device without a context has been stored, and a sweep
\* has come and gone without visiting the device
C40_Witness ==
    /\ Len(delivered) = 1 /\ IsTemp(1) /\ ~delivered[1].present
    /\ AlertDevice \in DOMAIN canaryLast
    /\ sweep.sweeps >= 1 /\ sweep.at = "idle" /\ swept = <<>>

(***************************************************************************)
(* The aggregation.                                                        *)
(***************************************************************************)
\* the samples of all the series, by instance and index
SamplesOf(all) ==
    UNION {{<<siid, i>> : i \in DOMAIN all[siid]} : siid \in DOMAIN all}

\* the start of the bucket of the sample p
BucketOf(p) ==
    TruncDiv(allStats[p[1]][p[2]].SnapshotTaken, AggregateBucketSecs)
        * AggregateBucketSecs

DatabaseNames == {"notehub", "notebox"}

FieldOf(s, f) ==
    CASE f = "disk" -> s.OSDiskRead
      [] f = "events" -> s.EventsEnqueued
      [] f \in DatabaseNames -> IF f \in DOMAIN s.Databases THEN s.Databases[f] ELSE 0
      [] OTHER -> 0

\* the sum of the field f over the samples ps
RECURSIVE SumOf(_, _)
SumOf(f, ps) ==
    IF ps = {} THEN 0
    ELSE LET p == CHOOSE x \in ps : TRUE
         IN  FieldOf(allStats[p[1]][p[2]], f) + SumOf(f, ps \ {p})

\* the aggregate as is the sum of the samples ps
SumsUp(as, ps) ==
    /\ as.DiskReads = SumOf("disk", ps) % Uint64Mod
    /\ as.EventsReceived = SumOf("events", ps)
    /\ as.DatabaseReads = SumOf("notehub", ps) + SumOf("notebox", ps)
    /\ \A key \in DatabaseNames :
           SumOf(key, ps) = IF key \in DOMAIN as.Databases
                            THEN as.Databases[key] ELSE 0

\* C33: statsAggregate returns one AggregatedStat for every bucket id
\* (when / bucketSecs) of the input series and no other, the most recent
\* first in strictly descending order, and every counter of it is the sum
\* of that counter over the samples of all instances with that bucket id.
C33_OneStatPerBucket ==
    aggregated.done =>
        LET out == aggregated.out
            ps == SamplesOf(allStats)
        IN  /\ Len(out) = Cardinality({BucketOf(p) : p \in ps})
            /\ {out[i].Time : i \in DOMAIN out} = {BucketOf(p) : p \in ps}
            /\ \A i \in 1..(Len(out) - 1) : out[i].Time > out[i + 1].Time
            /\ \A i \in DOMAIN out :
                   SumsUp(out[i], {p \in ps : BucketOf(p) = out[i].Time})

\* two instances with samples in the same bucket, one of them off the
\* grid, and another bucket besides
C33_Witness ==
    /\ aggregated.done
    /\ Len(aggregated.out) >= 2
    /\ \E p, q \in SamplesOf(allStats) :
           /\ p[1] /= q[1]
           /\ BucketOf(p) = BucketOf(q)
           /\ allStats[p[1]][p[2]].SnapshotTaken
                  /= allStats[q[1]][q[2]].SnapshotTaken

(***************************************************************************)
(* The locks.                                                              *)
(***************************************************************************)
\* a step of the reload touches the grid and the versions under statsLock
ReloadLocked == loading' /= loading => loading'.locked

\* the reader extracts
Extracts == last'.op = "Extract" /\ ops' = ops + 1

\* C34: every read and write of the host grid map and of the version map
\* (Verify, Add, Loaded, the Adds of a reload, Extract) is made with
\* gridLock (statsLock) held, so that no Extract sees the grid of a host in
\* the middle of a reload.
C34_GridUnderLock ==
    [][ReloadLocked /\ (Extracts => loading.at = "idle")]_vars

\* C35: no thread holds a mutex other than gridLock (statsLock) while it
\* performs a request to a diagnostic endpoint, an upload to the object
\* store or a post of an operator message.
C35_NoLockAcrossNetwork ==
    \A t \in NetThreads :
        net[t].call \in {"diagnostic", "upload", "message"}
            => net[t].held \subseteq {"statsLock"}

(***************************************************************************)
(* The version change and the Slack commands.                              *)
(***************************************************************************)
\* the step is a successful poll of the maintainer that finds a version
\* other than the one its last successful poll of the host found
MaintainerFindsChange ==
    /\ ops' = ops + 1
    /\ watch'.by = "maintainer"
    /\ ~pinged'.pingErr
    /\ LastVersion(watch.seen, pinged'.hostname)
           \notin {"", pinged'.serviceVersion}

\* C38: a version change of a host is reported as serviceVersionChanged to
\* the next successful poll of the maintainer, whatever calls of
\* watcherGetServiceInstances the Slack commands made for the host in
\* between.
C38_ChangeReachesMaintainer ==
    [][MaintainerFindsChange => pinged'.serviceVersionChanged]_vars

(***************************************************************************)
(* The buckets handed to the fan-out.                                      *)
(***************************************************************************)
\* the real bucket b is stored in the series k of the host h
StoredReal(h, k, b) ==
    /\ k \in DOMAIN Grid(stats, h)
    /\ \E j \in DOMAIN Grid(stats, h)[k] : Grid(stats, h)[k][j] = b /\ IsReal(b)

\* C39: a real bucket that an earlier Add has stored is not counted in
\* addedCount and not returned in addedByInstance when a later Add submits
\* it again, so that the fan-out is given every (SIID, when) bucket once.
C39_StoredNotAddedAgain ==
    [][AddReturned =>
         \A h \in Hosts : \A k \in DOMAIN last'.addedStats :
             \A i \in DOMAIN last'.addedStats[k] :
                 ~StoredReal(h, k, last'.addedStats[k][i])]_vars

====
